---- MODULE Spec2Model ----
(***************************************************************************)
(* Model of the MyRiddleRiddle podcast pipeline: the metadata store        *)
(* (utilities/utility.py) and the resumable stage runners                  *)
(* (etl/download_podcasts.py, etl/transcribe_podcasts.py,                  *)
(* etl/diarize_podcast.py) and the segment scoring (riddle_scoring.py).    *)
(*                                                                         *)
(* Conventions.  A metadata record (a Python dict) is a TLA+ record; a     *)
(* field the dict lacks is a field the record lacks.  Python's None, in a  *)
(* string-valued field, is the string NoneVal, which no real value equals. *)
(* A Python list is a sequence.  An insertion-ordered dict is a sequence   *)
(* of [k, v] pairs with pairwise distinct k.                               *)
(***************************************************************************)
EXTENDS Integers, Sequences, FiniteSets, TLC

VARIABLES
    \* ---- SpecMerge: merge_metadata applied to drawn inputs ----
    mA, mB, mC,        \* the three input lists
    mAB, mBC,          \* merge_metadata(mA, mB), merge_metadata(mB, mC)
    mLeft, mRight,     \* merge_metadata(mAB, mC), merge_metadata(mA, mBC)
    mAAB, mAA,         \* merge_metadata(mA, mAB), merge_metadata(mA, mA)
    mpc,               \* "inputs" -> "inner" -> "outer"
    \* ---- the stages ----
    files,             \* the file system: path -> content, for the files that exist
    pc,                \* the stage whose loop is running, or "idle"
    prior_metadata,    \* the running stage's prior_metadata
    existing,          \* the running stage's index of reusable outputs
    todo,              \* the items the running stage loops over
    pos,               \* the position in todo of the next item
    results,           \* the records the running stage has emitted
    calls,             \* the external processing calls of the running stage
    outcome,           \* how the last run ended: "ok", an exception, "none"
    merged_from,       \* the stage and arguments of the last merge_metadata call
    runs,              \* the number of runs that entered their loop
    removals,          \* the number of artifacts removed from outside
    \* ---- SpecTwice: what a test of repeated transcribe runs observes ----
    t_ended,           \* the number of transcribe runs that have ended
    t_asr,             \* the number of transcribe_audio invocations
    t_asr_raised,      \* whether the ASR model itself raised in one of them
    t_first,           \* the transcribe metadata file after the first run
    \* ---- SpecCalls: one call of a function of the pipeline ----
    call_fn,           \* the function called
    call_arg,          \* its arguments
    call_ret,          \* what it returned
    call_pc            \* "called" -> "returned"

mergeVars == <<mA, mB, mC, mAB, mBC, mLeft, mRight, mAAB, mAA, mpc>>

stageVars == <<files, pc, prior_metadata, existing, todo, pos, results, calls,
               outcome, merged_from, runs, removals>>

twiceVars == <<t_ended, t_asr, t_asr_raised, t_first>>

callVars == <<call_fn, call_arg, call_ret, call_pc>>

vars == <<mergeVars, stageVars, twiceVars, callVars>>

-----------------------------------------------------------------------------
(* Python values *)

NoneVal == "None"

\* bool(v) for a string-or-None value
Truthy(v) == v # "" /\ v # NoneVal

\* entry.get(f)
Get(entry, f) == IF f \in DOMAIN entry THEN entry[f] ELSE NoneVal

\* a or b
Or(a, b) == IF Truthy(a) THEN a ELSE b

Range(s) == {s[i] : i \in DOMAIN s}

\* all sequences over S of length at most n
SeqsUpTo(S, n) == UNION {[1..k -> S] : k \in 0..n}

-----------------------------------------------------------------------------
(* utilities/utility.py: merge_metadata *)

\* entry_key with the priority of guid and audio_url exchanged
entry_key_guid_first(entry) ==
    Or(Get(entry, "guid"), Or(Get(entry, "audio_url"), Get(entry, "title")))

entry_key(entry) ==
    Or(Get(entry, "audio_url"), Or(Get(entry, "guid"), Get(entry, "title")))

DictHas(d, k) == \E i \in DOMAIN d : d[i].k = k

\* d[k] = v that moves a rewritten key to the end
dict_set_move_to_end(d, k, v) ==
    SelectSeq(d, LAMBDA p : p.k # k) \o <<[k |-> k, v |-> v]>>

\* d[k] = v on a list of pairs: every assignment appends
dict_set_append(d, k, v) == Append(d, [k |-> k, v |-> v])

\* d[k] = v that keeps the first value of a key
dict_set_keep_first(d, k, v) ==
    IF DictHas(d, k) THEN d ELSE Append(d, [k |-> k, v |-> v])

\* d[k] = v on an insertion-ordered dict: a known key keeps its position
dict_set(d, k, v) ==
    IF DictHas(d, k)
    THEN [i \in DOMAIN d |-> IF d[i].k = k THEN [k |-> k, v |-> v] ELSE d[i]]
    ELSE Append(d, [k |-> k, v |-> v])

\* the loop body that stores every entry, keyed or not
merge_insert_unchecked(d, entry) == dict_set(d, entry_key(entry), entry)

\* the body of both loops: key = entry_key(entry); if key: merged[key] = entry
merge_insert(d, entry) ==
    IF Truthy(entry_key(entry)) THEN dict_set(d, entry_key(entry), entry) ELSE d

RECURSIVE merge_loop(_, _)
merge_loop(d, entries) ==
    IF entries = <<>> THEN d
    ELSE merge_loop(merge_insert(d, Head(entries)), Tail(entries))

dict_values(d) == [i \in DOMAIN d |-> d[i].v]

\* merge_metadata that ignores prior
merge_metadata_new_only(prior, new_entries) ==
    dict_values(merge_loop(<<>>, new_entries))

\* merge_metadata whose second loop starts at new_entries[1:]
merge_metadata_skip_first_new(prior, new_entries) ==
    dict_values(merge_loop(merge_loop(<<>>, prior),
                           IF new_entries = <<>> THEN <<>> ELSE Tail(new_entries)))

merge_metadata(prior, new_entries) ==
    dict_values(merge_loop(merge_loop(<<>>, prior), new_entries))

-----------------------------------------------------------------------------
(* Numbers that may be None: <<>> is None, <<n>> is the number n. *)

NoNum == <<>>
Num(n) == <<n>>
IsNum(x) == x # <<>>
Val(x) == x[1]

\* bool(x) for an int/float-or-None value
TruthyNum(x) == IsNum(x) /\ Val(x) # 0

\* entry.get(f) on a numeric field
GetNum(entry, f) == IF f \in DOMAIN entry THEN entry[f] ELSE NoNum

\* {**a, **b}, and dict.update
RecUpdate(a, b) ==
    [f \in DOMAIN a \cup DOMAIN b |-> IF f \in DOMAIN b THEN b[f] ELSE a[f]]

-----------------------------------------------------------------------------
(* Paths and files.  A path is directory, stem and extension; the stem is   *)
(* a base name, the counter download_audio appends (0: none) and the tag    *)
(* the diarize stage appends.  str(path) and Path(str) are inverse to each  *)
(* other on these, so a record field holds the path itself; NonePath stands *)
(* for None in a path-valued field.                                         *)

Stem(base, n, tag) == [base |-> base, n |-> n, tag |-> tag]
MkPath(dir, stem, ext) == [dir |-> dir, stem |-> stem, ext |-> ext]
NonePath == MkPath("", Stem("", 0, ""), "")

\* entry.get(f) on a path field
GetPath(entry, f) == IF f \in DOMAIN entry THEN entry[f] ELSE NonePath

\* bool(raw) for a path string or None
TruthyPath(p) == p # NonePath

\* Path.resolve(): the absolute path under the working directory
resolve(p) == [root |-> "/cwd", dir |-> p.dir, stem |-> p.stem, ext |-> p.ext]

\* Path.exists()
path_exists(fs, p) == p \in DOMAIN fs

\* the file system after writing content c to path p
write_file(fs, p, c) ==
    [q \in DOMAIN fs \cup {p} |-> IF q = p THEN c ELSE fs[q]]

remove_file(fs, p) == [q \in DOMAIN fs \ {p} |-> fs[q]]

\* src/config.py and the stage configurations of src/etl.py
STG_1_DIR == "data/stg_1_downloads"
STG_2_DIR == "data/stg_2_transcript"
STG_3_DIR == "STG_3_DIR"
META_DIR == "data/metadata"
STG_1_META == MkPath(META_DIR, Stem("stg_1_downloads", 0, ""), ".json")
STG_2_META == MkPath(META_DIR, Stem("stg_2_transcript", 0, ""), ".json")
STG_3_META == MkPath("", Stem("STG_3_META", 0, ""), "")

\* utility.save_json of a list of records
save_json(fs, data, path) == write_file(fs, path, [kind |-> "json_list", data |-> data])

\* the list a metadata file holds, as get_prior_metadata reads it: the
\* empty list when the file is absent, unparsable or not a list
loaded_list(fs, path) ==
    IF path_exists(fs, path) /\ fs[path].kind = "json_list" THEN fs[path].data ELSE <<>>

\* get_prior_metadata with "except FileNotFoundError" as its only handler
get_prior_metadata_raises_uncaught(fs, metadata_path) ==
    IF ~path_exists(fs, metadata_path) THEN ""
    ELSE IF fs[metadata_path].kind = "unparsable" THEN "JSONDecodeError"
    ELSE IF fs[metadata_path].kind = "json_list_of_scalars" THEN "AttributeError"
    ELSE ""

\* The exception get_prior_metadata lets through ("": none).  Lines 18-28
\* catch every failure of load_json; the loop of lines 30-37 is outside
\* the try, and entry.get on an element that is not an object raises.  A
\* file of kind "unparsable" is not JSON; one of kind "json_list_of_scalars"
\* is a JSON list with an element that is not an object.
get_prior_metadata_raises(fs, metadata_path) ==
    IF ~path_exists(fs, metadata_path) THEN ""
    ELSE IF fs[metadata_path].kind = "json_list_of_scalars" THEN "AttributeError"
    ELSE ""

\* get_prior_metadata: the prior records and the index audio_url -> file
\* of the entries whose recorded file exists (a later entry overwrites)
get_prior_metadata(fs, metadata_path) ==
    LET prior == loaded_list(fs, metadata_path)
        good == {i \in DOMAIN prior :
                    /\ Truthy(Get(prior[i], "audio_url"))
                    /\ TruthyPath(GetPath(prior[i], "file_path"))
                    /\ path_exists(fs, GetPath(prior[i], "file_path"))}
        urls == {prior[i].audio_url : i \in good}
    IN  [prior_metadata |-> prior,
         existing_files_by_url |->
            [u \in urls |->
                prior[CHOOSE i \in good :
                        /\ prior[i].audio_url = u
                        /\ \A j \in good : prior[j].audio_url = u => j <= i].file_path]]

\* utility.save_json of a JSON object
save_json_object(fs, data, path) ==
    write_file(fs, path, [kind |-> "json_dict", data |-> data])

\* whether load_json / json.load of the file at path yields a dict
loads_as_dict(fs, path) == path_exists(fs, path) /\ fs[path].kind = "json_dict"

Max2(a, b) == IF a >= b THEN a ELSE b
Min2(a, b) == IF a <= b THEN a ELSE b

\* interval_overlap without the max(0.0, ...)
interval_overlap_unclamped(a_start, a_end, b_start, b_end) ==
    Min2(a_end, b_end) - Max2(a_start, b_start)

\* interval_overlap
interval_overlap(a_start, a_end, b_start, b_end) ==
    Max2(0, Min2(a_end, b_end) - Max2(a_start, b_start))

-----------------------------------------------------------------------------
(* etl/download_podcasts.py *)

\* The feed as extract_items returns it (RSS parsing is outside the model).
\* published is None (<<>>) or an aware datetime <<[day, sec]>>.
DateTime(day, sec) == <<[day |-> day, sec |-> sec]>>

Feed ==
    << [title |-> "Ep 1", published |-> DateTime(1, 0), published_raw |-> "raw1",
        description |-> "d1", guid |-> "g1", audio_url |-> "http://h/one.mp3",
        feed_size_bytes |-> Num(4000), duration_seconds |-> Num(8),
        duration_raw |-> "8", duration_source |-> "itunes:duration",
        bitrate_kbps_feed |-> NoNum, mime_type |-> "audio/mpeg"],
       [title |-> "Ep 10", published |-> DateTime(2, 0), published_raw |-> "raw10",
        description |-> "d10", guid |-> "", audio_url |-> "http://h/ten",
        feed_size_bytes |-> NoNum, duration_seconds |-> NoNum,
        duration_raw |-> "", duration_source |-> NoneVal,
        bitrate_kbps_feed |-> Num(2), mime_type |-> NoneVal],
       [title |-> "untitled", published |-> <<>>, published_raw |-> "",
        description |-> "", guid |-> "g3", audio_url |-> "http://h/trailer.mp3",
        feed_size_bytes |-> NoNum, duration_seconds |-> NoNum,
        duration_raw |-> "", duration_source |-> NoneVal,
        bitrate_kbps_feed |-> NoNum, mime_type |-> NoneVal] >>

\* the bytes behind each audio_url: the size of the complete file
audio_size(url) == 4000

\* sanitize_filename on the titles of the feed:
\* re.sub(r"[^A-Za-z0-9._-]+", "_", value).strip("_") or "episode"
sanitize_filename(value) ==
    CASE value = "Ep 1" -> "Ep_1"
      [] value = "Ep 10" -> "Ep_10"
      [] value = "untitled" -> "untitled"
      [] OTHER -> "episode"

\* file_extension_from_url on the audio_urls of the feed: the suffix of the
\* URL path, ".mp3" when it has none
file_extension_from_url(url) == ".mp3"

\* str.startswith on base names
starts_with(name, prefix) ==
    \/ name = prefix
    \/ name = "Ep_10" /\ prefix = "Ep_1"

\* the file name of a stem: Ep_1 < Ep_10 < Ep_10_1 < Ep_1_1 as strings
\* followed by the extension ("." sorts before "0", "0" before "_")
name_rank(stem) ==
    CASE stem.base = "Ep_1" /\ stem.n = 0 -> 1
      [] stem.base = "Ep_10" /\ stem.n = 0 -> 2
      [] stem.base = "Ep_10" -> 3
      [] stem.base = "Ep_1" -> 4
      [] stem.base = "episode" -> 5
      [] OTHER -> 6

\* sorted(output_dir.glob(f"{base_name}*{ext}")), then the first is_file()
glob_first(fs, dir, base_name, ext) ==
    LET matching == {p \in DOMAIN fs :
                        /\ p.dir = dir /\ p.ext = ext /\ p.stem.tag = ""
                        /\ starts_with(p.stem.base, base_name)}
    IN  IF matching = {} THEN NonePath
        ELSE CHOOSE p \in matching :
                \A q \in matching : name_rank(p.stem) <= name_rank(q.stem)

\* download_audio's choice of destination: base.ext, else base_1.ext, ...
RECURSIVE free_candidate(_, _, _, _, _)
free_candidate(fs, dir, base_name, ext, counter) ==
    LET candidate == MkPath(dir, Stem(base_name, counter, ""), ext)
    IN  IF path_exists(fs, candidate)
        THEN free_candidate(fs, dir, base_name, ext, counter + 1)
        ELSE candidate

\* download_audio under the network outcome net: "ok" writes the complete
\* file; "refused" fails in urlopen, before the destination is opened;
\* "broken" fails in copyfileobj, after the destination was created.
\* Both failures raise SystemExit.
download_audio(fs, url, dest_dir, title, net) ==
    LET candidate == free_candidate(fs, dest_dir, sanitize_filename(title),
                                    file_extension_from_url(url), 0)
    IN  CASE net = "ok" ->
               [fs |-> write_file(fs, candidate,
                          [kind |-> "audio", src |-> url,
                           size |-> audio_size(url), complete |-> TRUE]),
                path |-> candidate, raised |-> ""]
          [] net = "broken" ->
               [fs |-> write_file(fs, candidate,
                          [kind |-> "audio", src |-> url,
                           size |-> 0, complete |-> FALSE]),
                path |-> NonePath, raised |-> "SystemExit"]
          [] OTHER ->
               [fs |-> fs, path |-> NonePath, raised |-> "SystemExit"]

NetOutcomes == {"ok", "refused", "broken"}

\* the true division of the fill-in; the feed's numbers divide exactly
Div(a, b) == a \div b

\* lines 315-316 without the tests on the values: any known operands
derive_bitrate_unguarded(bitrate_feed, duration_seconds, size_for_calc) ==
    ~IsNum(bitrate_feed) /\ IsNum(duration_seconds) /\ IsNum(size_for_calc)

\* lines 315-316: whether the bitrate is derived from size and duration
derive_bitrate(bitrate_feed, duration_seconds, size_for_calc) ==
    /\ ~IsNum(bitrate_feed) /\ TruthyNum(duration_seconds)
    /\ TruthyNum(size_for_calc) /\ Val(duration_seconds) > 0

\* lines 320-321 without "duration_seconds is None"
derive_duration_when_known(duration_seconds, bitrate_kbps) ==
    TruthyNum(bitrate_kbps) /\ Val(bitrate_kbps) > 0

\* lines 320-321: whether the duration is derived from bitrate and size
derive_duration(duration_seconds, bitrate_kbps) ==
    ~IsNum(duration_seconds) /\ TruthyNum(bitrate_kbps) /\ Val(bitrate_kbps) > 0

\* line 314: size_for_calc = file_size_bytes or feed_size
size_for_calc(episode, file_size_bytes) ==
    IF file_size_bytes # 0 THEN Num(file_size_bytes)
    ELSE GetNum(episode, "feed_size_bytes")

\* lines 306-333: file size and the fill-in of bitrate and duration
reconcile(episode, file_size_bytes) ==
    LET duration_seconds == GetNum(episode, "duration_seconds")
        duration_source == Get(episode, "duration_source")
        feed_size == GetNum(episode, "feed_size_bytes")
        bitrate_feed == GetNum(episode, "bitrate_kbps_feed")
        bitrate_source0 == IF IsNum(bitrate_feed) THEN "feed" ELSE NoneVal
        size == size_for_calc(episode, file_size_bytes)
        first == derive_bitrate(bitrate_feed, duration_seconds, size)
        bitrate_kbps == IF first
                        THEN Num(Div(Div(Val(size) * 8, Val(duration_seconds)), 1000))
                        ELSE bitrate_feed
        bitrate_source == IF first
                          THEN "calculated_from_size_and_duration"
                          ELSE bitrate_source0
        second == derive_duration(duration_seconds, bitrate_kbps)
    IN  [file_size_bytes |-> Num(file_size_bytes),
         bitrate_kbps |-> bitrate_kbps,
         bitrate_source |-> bitrate_source,
         duration_seconds |-> IF second
                              THEN Num(Div(file_size_bytes * 8, Val(bitrate_kbps) * 1000))
                              ELSE duration_seconds,
         duration_source |-> IF second
                             THEN "estimated_from_bitrate_and_size"
                             ELSE duration_source]

\* the exception lines 317 and 322 raise: a division by zero
reconcile_raises(episode, file_size_bytes) ==
    LET duration_seconds == GetNum(episode, "duration_seconds")
        bitrate_feed == GetNum(episode, "bitrate_kbps_feed")
        size == size_for_calc(episode, file_size_bytes)
        first == derive_bitrate(bitrate_feed, duration_seconds, size)
    IN  IF first /\ Val(duration_seconds) = 0 THEN "ZeroDivisionError"
        ELSE IF derive_duration(duration_seconds,
                                reconcile(episode, file_size_bytes).bitrate_kbps)
                /\ Val(reconcile(episode, file_size_bytes).bitrate_kbps) * 1000 = 0
        THEN "ZeroDivisionError"
        ELSE ""

\* one pass of the loop over to_download (lines 285-334)
download_item(fs, existing_files_by_url, episode, output_dir, net) ==
    LET base_name == sanitize_filename(episode.title)
        ext == file_extension_from_url(episode.audio_url)
        indexed == IF episode.audio_url \in DOMAIN existing_files_by_url
                   THEN existing_files_by_url[episode.audio_url] ELSE NonePath
        existing_path == IF ~TruthyPath(indexed) \/ ~path_exists(fs, indexed)
                         THEN glob_first(fs, output_dir, base_name, ext)
                         ELSE indexed
        used_existing_file == TruthyPath(existing_path)
        dl == download_audio(fs, episode.audio_url, output_dir, episode.title, net)
        fs1 == IF used_existing_file THEN fs ELSE dl.fs
        audio_path == IF used_existing_file THEN existing_path ELSE dl.path
    IN  IF ~used_existing_file /\ dl.raised # ""
        THEN [fs |-> fs1, raised |-> dl.raised, emitted |-> <<>>,
              called |-> <<[fn |-> "download_audio", arg |-> episode.audio_url]>>]
        ELSE IF reconcile_raises(episode, fs1[audio_path].size) # ""
        THEN [fs |-> fs1, raised |-> reconcile_raises(episode, fs1[audio_path].size),
              emitted |-> <<>>,
              called |-> IF used_existing_file THEN <<>>
                         ELSE <<[fn |-> "download_audio", arg |-> episode.audio_url]>>]
        ELSE [fs |-> fs1, raised |-> "",
              emitted |-> << RecUpdate(RecUpdate(episode, [file_path |-> audio_path]),
                                       reconcile(episode, fs1[audio_path].size)) >>,
              called |-> IF used_existing_file THEN <<>>
                         ELSE <<[fn |-> "download_audio", arg |-> episode.audio_url]>>]

\* datetime.isoformat()
isoformat(published) == <<"iso8601", published[1].day, published[1].sec>>

\* isinstance(published, dt.datetime)
is_datetime(published) == Len(published) = 1

\* write_metadata's projection of one entry onto the persisted fields
serializable(entry) ==
    LET published == IF "published" \in DOMAIN entry THEN entry.published ELSE <<>>
    IN  [title |-> Or(Get(entry, "title"), "untitled"),
         published |-> IF is_datetime(published) THEN isoformat(published) ELSE published,
         published_raw |-> Get(entry, "published_raw"),
         description |-> Get(entry, "description"),
         guid |-> Get(entry, "guid"),
         audio_url |-> Get(entry, "audio_url"),
         mime_type |-> Get(entry, "mime_type"),
         feed_size_bytes |-> GetNum(entry, "feed_size_bytes"),
         file_size_bytes |-> GetNum(entry, "file_size_bytes"),
         bitrate_kbps |-> GetNum(entry, "bitrate_kbps"),
         bitrate_source |-> Get(entry, "bitrate_source"),
         duration_seconds |-> GetNum(entry, "duration_seconds"),
         duration_source |-> Get(entry, "duration_source"),
         file_path |-> GetPath(entry, "file_path")]

write_metadata(fs, entries, metadata_path) ==
    save_json(fs, [i \in DOMAIN entries |-> serializable(entries[i])], metadata_path)

\* A date option of download_podcasts: None, or a string that is or is not
\* an ISO date.
NoDate == <<>>
IsoDate(day) == <<[valid |-> TRUE, day |-> day]>>
BadDate == <<[valid |-> FALSE, day |-> 0]>>

\* str.lower() on the sort orders of the configurations
lower(sort_order) ==
    CASE sort_order = "ASC" -> "asc"
      [] sort_order = "DESC" -> "desc"
      [] OTHER -> sort_order

\* lines 240-250 without any check
validate_config_accepts_all(config) == ""

\* lines 240-250: "" when the configuration is accepted, else SystemExit
validate_config(config) ==
    LET bad_date(d) == d # NoDate /\ ~d[1].valid
        sort_order_normalized == lower(Or(config.sort_order, "desc"))
    IN  IF /\ config.start_date = NoDate /\ config.end_date = NoDate
           /\ ~IsNum(config.limit)
        THEN "SystemExit"
        ELSE IF bad_date(config.start_date) \/ bad_date(config.end_date)
        THEN "SystemExit"
        ELSE IF /\ config.start_date # NoDate /\ config.end_date # NoDate
                /\ config.end_date[1].day < config.start_date[1].day
        THEN "SystemExit"
        ELSE IF sort_order_normalized \notin {"asc", "desc"}
        THEN "SystemExit"
        ELSE ""

\* in_range (lines 263-272)
in_range(item, config) ==
    /\ item.published # <<>>
    /\ config.start_date # NoDate => ~(item.published[1].day < config.start_date[1].day)
    /\ config.end_date # NoDate => ~(item.published[1].day > config.end_date[1].day)

\* order of two datetimes
dt_less(a, b) == a[1].day < b[1].day \/ (a[1].day = b[1].day /\ a[1].sec < b[1].sec)

\* list.sort(key=published, reverse=...): stable in both directions
RECURSIVE sort_insert(_, _, _)
sort_insert(sorted, x, reverse) ==
    IF sorted = <<>> THEN <<x>>
    ELSE LET last == sorted[Len(sorted)]
             x_before_last == IF reverse THEN dt_less(last.published, x.published)
                              ELSE dt_less(x.published, last.published)
         IN  IF x_before_last
             THEN Append(sort_insert(SubSeq(sorted, 1, Len(sorted) - 1), x, reverse), last)
             ELSE Append(sorted, x)

RECURSIVE sort_by_published(_, _)
sort_by_published(items, reverse) ==
    IF items = <<>> THEN <<>>
    ELSE sort_insert(sort_by_published(SubSeq(items, 1, Len(items) - 1), reverse),
                     items[Len(items)], reverse)

\* lines 274-281 with the truncation before the sort
select_episodes_truncate_first(items, config) ==
    LET filtered == SelectSeq(items, LAMBDA item : in_range(item, config))
        max_items == IF IsNum(config.limit) /\ Val(config.limit) > 0
                     THEN Val(config.limit) ELSE 0
        cut == IF max_items # 0 /\ max_items < Len(filtered)
               THEN SubSeq(filtered, 1, max_items) ELSE filtered
    IN  sort_by_published(cut, lower(Or(config.sort_order, "desc")) = "desc")

\* lines 274-281: filter, sort, truncate
select_episodes(items, config) ==
    LET filtered == SelectSeq(items, LAMBDA item : in_range(item, config))
        sorted == sort_by_published(filtered,
                                    lower(Or(config.sort_order, "desc")) = "desc")
        max_items == IF IsNum(config.limit) /\ Val(config.limit) > 0
                     THEN Val(config.limit) ELSE 0
    IN  IF max_items # 0 /\ max_items < Len(sorted)
        THEN SubSeq(sorted, 1, max_items) ELSE sorted

\* the configurations download_podcasts is run with
DownloadConfigs ==
    { [start_date |-> NoDate, end_date |-> NoDate, limit |-> Num(1), sort_order |-> "asc"],
      [start_date |-> NoDate, end_date |-> NoDate, limit |-> Num(1), sort_order |-> NoneVal],
      [start_date |-> NoDate, end_date |-> NoDate, limit |-> Num(10), sort_order |-> "asc"],
      [start_date |-> IsoDate(1), end_date |-> IsoDate(2), limit |-> NoNum, sort_order |-> "DESC"],
      [start_date |-> IsoDate(3), end_date |-> NoDate, limit |-> NoNum, sort_order |-> "desc"],
      [start_date |-> NoDate, end_date |-> NoDate, limit |-> NoNum, sort_order |-> "desc"],
      [start_date |-> BadDate, end_date |-> NoDate, limit |-> NoNum, sort_order |-> "desc"],
      [start_date |-> IsoDate(2), end_date |-> IsoDate(1), limit |-> NoNum, sort_order |-> "desc"],
      [start_date |-> NoDate, end_date |-> NoDate, limit |-> Num(1), sort_order |-> "newest"] }

-----------------------------------------------------------------------------
(* etl/transcribe_podcasts.py *)

\* What WhisperModel.transcribe returns (the model is outside): the info
\* and the segments.  Probabilities are in percent, times in seconds.
WhisperSpeech ==
    [language |-> "en", language_probability |-> Num(90),
     duration |-> 10, duration_after_vad |-> 10,
     segments |-> << [id |-> 1, start |-> 0, end |-> 5, text |-> "What has keys",
                      avg_logprob |-> -1, no_speech_prob |-> 1, compression_ratio |-> 1],
                     [id |-> 2, start |-> 5, end |-> 10, text |-> "A piano",
                      avg_logprob |-> -2, no_speech_prob |-> 2, compression_ratio |-> 1] >>]

\* an audio file without samples: duration 0 and no segment
WhisperEmpty ==
    [language |-> "en", language_probability |-> Num(50),
     duration |-> 0, duration_after_vad |-> 0, segments |-> <<>>]

\* the outcomes of one transcribe_audio call: a return value for one of the
\* two, or an exception of the model
WhisperOutcomes == {[raised |-> "", out |-> WhisperSpeech],
                    [raised |-> "", out |-> WhisperEmpty],
                    [raised |-> "RuntimeError", out |-> WhisperEmpty]}

\* transcribe_audio's return value (lines 75-89); speech_ratio is None or
\* the quotient duration_after_vad / duration
transcribe_audio(audio_path, whisper) ==
    [audio_path |-> audio_path,
     language |-> whisper.language,
     language_probability |-> whisper.language_probability,
     duration |-> whisper.duration,
     duration_after_vad |-> whisper.duration_after_vad,
     speech_ratio |-> IF whisper.duration # 0 /\ whisper.duration > 0
                         /\ whisper.duration_after_vad # 0
                      THEN <<[num |-> whisper.duration_after_vad, den |-> whisper.duration]>>
                      ELSE <<>>,
     segments |-> whisper.segments]

\* lines 186-209: the segments dictionary, keyed s1, s2, ... in order
segments_dict(segments) ==
    [idx \in DOMAIN segments |->
        [k |-> <<"s", idx>>,
         v |-> [id |-> segments[idx].id,
                text |-> segments[idx].text,
                duration |-> segments[idx].end - segments[idx].start,
                start |-> segments[idx].start,
                end |-> segments[idx].end,
                avg_logprob |-> segments[idx].avg_logprob,
                no_speech_prob |-> segments[idx].no_speech_prob,
                compression_ratio |-> segments[idx].compression_ratio]]]

\* lines 211-218
transcript_data(result) ==
    [language |-> result.language,
     language_probability |-> result.language_probability,
     duration |-> result.duration,
     duration_after_vad |-> result.duration_after_vad,
     speech_ratio |-> result.speech_ratio,
     segments |-> segments_dict(result.segments)]

\* lines 124-132 without the test of line 131, transcript_path.exists()
transcript_index_unchecked(fs, prior) ==
    LET good == {i \in DOMAIN prior :
                    /\ TruthyPath(GetPath(prior[i], "file_path"))
                    /\ TruthyPath(GetPath(prior[i], "transcript_path"))}
        keys == {resolve(prior[i].file_path) : i \in good}
    IN  [a \in keys |->
            prior[CHOOSE i \in good :
                    /\ resolve(prior[i].file_path) = a
                    /\ \A j \in good : resolve(prior[j].file_path) = a => j <= i
                 ].transcript_path]

\* lines 124-132: resolved audio path -> recorded transcript that exists
transcript_index(fs, prior) ==
    LET good == {i \in DOMAIN prior :
                    /\ TruthyPath(GetPath(prior[i], "file_path"))
                    /\ TruthyPath(GetPath(prior[i], "transcript_path"))
                    /\ path_exists(fs, prior[i].transcript_path)}
        keys == {resolve(prior[i].file_path) : i \in good}
    IN  [a \in keys |->
            prior[CHOOSE i \in good :
                    /\ resolve(prior[i].file_path) = a
                    /\ \A j \in good : resolve(prior[j].file_path) = a => j <= i
                 ].transcript_path]

\* line 144: the recorded transcript of this audio file, else stem + ".json"
resolve_transcript_path(index, audio_path, output_dir) ==
    IF resolve(audio_path) \in DOMAIN index
    THEN index[resolve(audio_path)]
    ELSE MkPath(output_dir, audio_path.stem, ".json")

\* the summary fields read back from an existing transcript (lines 151-157)
transcript_summary(fs, transcript_path) ==
    LET existing_data == fs[transcript_path].data
    IN  [language |-> existing_data.language,
         language_probability |-> existing_data.language_probability,
         num_segments |-> Len(existing_data.segments)]

\* line 146 read as "always transcribe"
transcript_is_done_never(fs, transcript_path) == FALSE

\* the emitted record without **podcast
emitted_record_new_only(podcast, fields) == fields

\* {**podcast, ...}: the record a stage emits for an item (transcribe lines
\* 151-163 and 226-232, diarize lines 151-158)
emitted_record(podcast, fields) == RecUpdate(podcast, fields)

\* line 146 read as "exists and loads": an unloadable transcript is redone
transcript_is_done_if_loadable(fs, transcript_path) ==
    path_exists(fs, transcript_path) /\ loads_as_dict(fs, transcript_path)

\* line 146: the resumption check
transcript_is_done(fs, transcript_path) == path_exists(fs, transcript_path)

\* lines 140-142 read as "never skip"
audio_is_missing_never(fs, audio_path) == FALSE

\* lines 140-142: the upstream check, not audio_path.exists()
audio_is_missing(fs, audio_path) == ~path_exists(fs, audio_path)

\* one pass of the loop of transcribe_podcasts (lines 136-236)
transcribe_item(fs, index, podcast, output_dir, whisper) ==
    LET audio_path == podcast.file_path
        transcript_path == resolve_transcript_path(index, audio_path, output_dir)
        result == transcribe_audio(audio_path, whisper.out)
        written_path == MkPath(output_dir, audio_path.stem, ".json")
        asr_call == <<[fn |-> "transcribe_audio", arg |-> audio_path]>>
    IN  IF audio_is_missing(fs, audio_path)
        THEN [fs |-> fs, raised |-> "", emitted |-> <<>>, called |-> <<>>]
        ELSE IF transcript_is_done(fs, transcript_path)
        THEN [fs |-> fs, raised |-> "", called |-> <<>>,
              emitted |->
                 << emitted_record(podcast,
                       IF loads_as_dict(fs, transcript_path)
                       THEN RecUpdate([transcript_path |-> transcript_path],
                                      transcript_summary(fs, transcript_path))
                       ELSE [transcript_path |-> transcript_path]) >>]
        ELSE IF whisper.raised # ""
        THEN [fs |-> fs, raised |-> whisper.raised, emitted |-> <<>>, called |-> asr_call]
        ELSE IF result.speech_ratio = <<>>
        \* line 178 formats result['speech_ratio'] with :.2%, a TypeError on None
        THEN [fs |-> fs, raised |-> "TypeError", emitted |-> <<>>, called |-> asr_call]
        ELSE [fs |-> save_json_object(fs, transcript_data(result), written_path),
              raised |-> "", called |-> asr_call,
              emitted |->
                 << emitted_record(podcast,
                       [transcript_path |-> written_path,
                        language |-> result.language,
                        language_probability |-> result.language_probability,
                        num_segments |-> Len(result.segments)]) >>]

-----------------------------------------------------------------------------
(* etl/diarize_podcast.py *)

\* What diarize_audio returns (the pyannote pipeline is outside).
Turn(start, end, speaker) == [start |-> start, end |-> end, speaker |-> speaker]

DiarizeOutcomes ==
    {[raised |-> "", out |-> <<Turn(0, 6, "A"), Turn(6, 10, "B"), Turn(20, 30, "C")>>],
     [raised |-> "", out |-> <<>>],
     [raised |-> "RuntimeError", out |-> <<>>]}

\* lines 56-61 with "overlap >= 0" in place of "overlap > 0"
RECURSIVE accumulate_overlaps_nonnegative(_, _, _, _)
accumulate_overlaps_nonnegative(overlaps, seg_start, seg_end, speaker_segments) ==
    IF speaker_segments = <<>> THEN overlaps
    ELSE LET turn == Head(speaker_segments)
             overlap == interval_overlap(seg_start, seg_end, turn.start, turn.end)
             sofar == IF DictHas(overlaps, turn.speaker)
                      THEN (CHOOSE i \in DOMAIN overlaps :
                               overlaps[i].k = turn.speaker)
                      ELSE 0
             old == IF sofar = 0 THEN 0 ELSE overlaps[sofar].v
         IN  accumulate_overlaps_nonnegative(
                 IF overlap >= 0
                 THEN dict_set(overlaps, turn.speaker, old + overlap)
                 ELSE overlaps,
                 seg_start, seg_end, Tail(speaker_segments))

\* lines 56-61: the accumulated overlap per speaker, in first-seen order
RECURSIVE accumulate_overlaps(_, _, _, _)
accumulate_overlaps(overlaps, seg_start, seg_end, speaker_segments) ==
    IF speaker_segments = <<>> THEN overlaps
    ELSE LET turn == Head(speaker_segments)
             overlap == interval_overlap(seg_start, seg_end, turn.start, turn.end)
             sofar == IF DictHas(overlaps, turn.speaker)
                      THEN (CHOOSE i \in DOMAIN overlaps :
                               overlaps[i].k = turn.speaker)
                      ELSE 0
             old == IF sofar = 0 THEN 0 ELSE overlaps[sofar].v
         IN  accumulate_overlaps(
                 IF overlap > 0
                 THEN dict_set(overlaps, turn.speaker, old + overlap)
                 ELSE overlaps,
                 seg_start, seg_end, Tail(speaker_segments))

\* a maximum that keeps the last of the keys with the greatest value
last_max_key(overlaps) ==
    overlaps[CHOOSE i \in DOMAIN overlaps :
                /\ \A j \in DOMAIN overlaps : overlaps[j].v <= overlaps[i].v
                /\ \A j \in DOMAIN overlaps : overlaps[j].v = overlaps[i].v => j <= i].k

\* min(overlaps, key=overlaps.get) in place of max
first_min_key(overlaps) ==
    overlaps[CHOOSE i \in DOMAIN overlaps :
                /\ \A j \in DOMAIN overlaps : overlaps[j].v >= overlaps[i].v
                /\ \A j \in DOMAIN overlaps : overlaps[j].v = overlaps[i].v => i <= j].k

\* max(overlaps, key=overlaps.get): the first key with the greatest value
first_max_key(overlaps) ==
    overlaps[CHOOSE i \in DOMAIN overlaps :
                /\ \A j \in DOMAIN overlaps : overlaps[j].v <= overlaps[i].v
                /\ \A j \in DOMAIN overlaps : overlaps[j].v = overlaps[i].v => i <= j].k

\* lines 52-68 for one segment
assign_speaker(seg, speaker_segments) ==
    LET overlaps == accumulate_overlaps(<<>>, seg.start, seg.end, speaker_segments)
        speaker == first_max_key(overlaps)
    IN  IF overlaps # <<>>
        THEN RecUpdate(seg, [speaker |-> speaker,
                             speaker_overlap |->
                                overlaps[CHOOSE i \in DOMAIN overlaps :
                                            overlaps[i].k = speaker].v])
        ELSE RecUpdate(seg, [speaker |-> "UNKNOWN", speaker_overlap |-> 0])

assign_speakers_to_segments(transcript, speaker_segments) ==
    [transcript EXCEPT !.segments =
        [i \in DOMAIN transcript.segments |->
            [k |-> transcript.segments[i].k,
             v |-> assign_speaker(transcript.segments[i].v, speaker_segments)]]]

\* lines 99-107: resolved transcript path -> recorded diarized file that exists
diarized_index(fs, prior) ==
    LET good == {i \in DOMAIN prior :
                    /\ TruthyPath(GetPath(prior[i], "transcript_path"))
                    /\ TruthyPath(GetPath(prior[i], "diarized_transcript_path"))
                    /\ path_exists(fs, prior[i].diarized_transcript_path)}
        keys == {resolve(prior[i].transcript_path) : i \in good}
    IN  [t \in keys |->
            prior[CHOOSE i \in good :
                    /\ resolve(prior[i].transcript_path) = t
                    /\ \A j \in good : resolve(prior[j].transcript_path) = t => j <= i
                 ].diarized_transcript_path]

\* lines 122-124: the recorded diarized file, else stem + "_diarized.json"
resolve_diarized_path(index, transcript_path, output_dir) ==
    IF resolve(transcript_path) \in DOMAIN index
    THEN index[resolve(transcript_path)]
    ELSE MkPath(output_dir,
                Stem(transcript_path.stem.base, transcript_path.stem.n, "_diarized"),
                ".json")

\* lines 129-133: the summary read back from an existing diarized file;
\* sorted(set) is the set of labels
diarized_summary(fs, diarized_path) ==
    LET segments == fs[diarized_path].data.segments
    IN  [speaker_labels |->
            {Get(segments[i].v, "speaker") :
                i \in {j \in DOMAIN segments : Truthy(Get(segments[j].v, "speaker"))}},
         speaker_segment_count |-> Len(segments)]

\* one pass of the loop of diarize_podcasts (lines 111-158)
diarize_item(fs, index, podcast, output_dir, diarization) ==
    LET transcript_path == podcast.transcript_path
        audio_path == podcast.file_path
        diarized_path == resolve_diarized_path(index, transcript_path, output_dir)
        speaker_segments == diarization.out
        call == <<[fn |-> "diarize_audio", arg |-> audio_path]>>
        emit(summary) ==
            << emitted_record(podcast,
                  RecUpdate([diarized_transcript_path |-> diarized_path], summary)) >>
    IN  IF ~path_exists(fs, transcript_path) \/ ~path_exists(fs, audio_path)
        THEN [fs |-> fs, raised |-> "", emitted |-> <<>>, called |-> <<>>]
        ELSE IF path_exists(fs, diarized_path)
        THEN [fs |-> fs, raised |-> "", called |-> <<>>,
              emitted |-> emit(IF loads_as_dict(fs, diarized_path)
                               THEN diarized_summary(fs, diarized_path)
                               ELSE [speaker_labels |-> {},
                                     speaker_segment_count |-> 0])]
        ELSE IF diarization.raised # ""
        THEN [fs |-> fs, raised |-> diarization.raised, emitted |-> <<>>, called |-> call]
        ELSE IF ~loads_as_dict(fs, transcript_path)
        THEN [fs |-> fs, raised |-> "JSONDecodeError", emitted |-> <<>>, called |-> call]
        ELSE [fs |-> save_json_object(fs,
                        assign_speakers_to_segments(fs[transcript_path].data,
                                                    speaker_segments),
                        diarized_path),
              raised |-> "", called |-> call,
              emitted |-> emit([speaker_labels |->
                                   {speaker_segments[i].speaker : i \in DOMAIN speaker_segments},
                                speaker_segment_count |-> Len(speaker_segments)])]

-----------------------------------------------------------------------------
(* riddle_scoring.py.  Scores are in percent.  The sentence embeddings are  *)
(* outside: what reaches the scores is the repetition value of each         *)
(* segment, or an exception.  The scores read off the words of the text     *)
(* are left out of the scoring record.                                      *)

\* clamp with the default bounds
clamp(x) == Max2(0, Min2(100, x))

\* what compute_embeddings and repetition_scores yield for a list of texts:
\* an exception, or one score per text, 0 for a text that is alone
EmbedOutcomes == [raised : {"", "ValueError"}, similarity : {20, 90}]

repetition_scores(texts, embed) ==
    [i \in DOMAIN texts |-> IF Len(texts) > 1 THEN embed.similarity ELSE 0]

\* score_segment: the parts that do not read the words
score_segment(text, repetition, avg_logprob) ==
    [repetition_similarity |-> repetition,
     asr_confidence |-> IF IsNum(avg_logprob)
                        THEN clamp(100 + 100 * Val(avg_logprob))
                        ELSE 50]

\* one entry of scored_segments (lines 155-167)
scored_entry(seg, repetition) ==
    [transcription |-> seg,
     scoring |-> score_segment(seg.text, repetition,
                               IF "avg_logprob" \in DOMAIN seg
                               THEN Num(seg.avg_logprob) ELSE NoNum)]

\* riddle_scoring with scored_segments keyed by the segment's id field
riddle_scoring_keyed_by_id(transcript, embed) ==
    LET segments == transcript.segments
        texts == [i \in DOMAIN segments |-> segments[i].v.text]
        repetition == repetition_scores(texts, embed)
    IN  IF embed.raised # "" THEN [raised |-> embed.raised]
        ELSE [raised |-> "",
              out |-> RecUpdate(transcript,
                        [segments |->
                            [i \in DOMAIN segments |->
                                [k |-> <<"s", segments[i].v.id>>,
                                 v |-> scored_entry(segments[i].v, repetition[i])]]])]

\* riddle_scoring (lines 132-172)
riddle_scoring(transcript, embed) ==
    LET segments == transcript.segments
        texts == [i \in DOMAIN segments |-> segments[i].v.text]
        repetition == repetition_scores(texts, embed)
    IN  IF embed.raised # "" THEN [raised |-> embed.raised]
        ELSE [raised |-> "",
              out |-> RecUpdate(transcript,
                        [segments |->
                            [i \in DOMAIN segments |->
                                [k |-> segments[i].k,
                                 v |-> scored_entry(segments[i].v, repetition[i])]]])]

-----------------------------------------------------------------------------
(* The stage runs.  pc names the stage whose loop is running ("idle":     *)
(* none); a run is its start (everything before the loop), one step per   *)
(* item, and its finish (merge and save).  A run that raises goes back to *)
(* "idle" with the exception in outcome; the files it wrote remain.       *)

MaxRuns == 4
MaxRemovals == 1

RunReset ==
    /\ pc' = "idle"
    /\ prior_metadata' = <<>>
    /\ existing' = <<>>
    /\ todo' = <<>>
    /\ pos' = 0
    /\ results' = <<>>
    /\ calls' = <<>>

RunBegin(stage, prior, index, items) ==
    /\ runs < MaxRuns
    /\ runs' = runs + 1
    /\ pc' = stage
    /\ prior_metadata' = prior
    /\ existing' = index
    /\ todo' = items
    /\ pos' = 1
    /\ results' = <<>>
    /\ calls' = <<>>
    /\ outcome' = "running"

\* one pass of a stage's loop that also saves the metadata merged so far
RunStep_checkpointing(step) ==
    /\ UNCHANGED <<merged_from, runs, removals>>
    /\ files' = save_json(step.fs,
                          merge_metadata(prior_metadata, results \o step.emitted),
                          CASE pc = "download" -> STG_1_META
                            [] pc = "transcribe" -> STG_2_META
                            [] OTHER -> STG_3_META)
    /\ IF step.raised # ""
       THEN RunReset /\ outcome' = step.raised
       ELSE /\ results' = results \o step.emitted
            /\ calls' = calls \o step.called
            /\ pos' = pos + 1
            /\ UNCHANGED <<pc, prior_metadata, existing, todo, outcome>>

\* the effect of one pass of a stage's loop
RunStep(step) ==
    /\ UNCHANGED <<merged_from, runs, removals>>
    /\ files' = step.fs
    /\ IF step.raised # ""
       THEN RunReset /\ outcome' = step.raised
       ELSE /\ results' = results \o step.emitted
            /\ calls' = calls \o step.called
            /\ pos' = pos + 1
            /\ UNCHANGED <<pc, prior_metadata, existing, todo, outcome>>

\* the end of a run's loop: merge with the prior metadata, persist
RunFinish(saved) ==
    /\ pos > Len(todo)
    /\ files' = saved
    /\ merged_from' = [stage |-> pc, prior |-> prior_metadata, new |-> results]
    /\ RunReset
    /\ outcome' = "ok"
    /\ UNCHANGED <<runs, removals>>

\* a run that ends before its loop
RunEndsEarly(how) ==
    /\ RunReset
    /\ outcome' = how
    /\ UNCHANGED <<runs>>

\* download_podcasts up to the loop (lines 240-284): how it ends, the I/O
\* it has done in order, and what the loop starts from.  net is the
\* outcome of fetch_feed.
download_prelude(fs, config, net) ==
    LET loaded == get_prior_metadata(fs, STG_1_META)
        read_prior == [op |-> "load_json", what |-> "prior metadata"]
        fetch == [op |-> "urlopen", what |-> "feed"]
    IN  IF validate_config(config) # ""
        THEN [raised |-> validate_config(config), io |-> <<>>]
        ELSE IF get_prior_metadata_raises(fs, STG_1_META) # ""
        THEN [raised |-> get_prior_metadata_raises(fs, STG_1_META), io |-> <<read_prior>>]
        ELSE IF net # "ok"
        THEN [raised |-> "SystemExit", io |-> <<read_prior, fetch>>]
        ELSE IF \/ Feed = <<>>
                \/ SelectSeq(Feed, LAMBDA item : in_range(item, config)) = <<>>
        THEN [raised |-> "SystemExit", io |-> <<read_prior, fetch>>]
        ELSE [raised |-> "", io |-> <<read_prior, fetch>>,
              prior_metadata |-> loaded.prior_metadata,
              existing_files_by_url |-> loaded.existing_files_by_url,
              to_download |-> select_episodes(Feed, config)]

\* download_podcasts up to the loop (lines 240-284)
DownloadStart(config, net) ==
    /\ pc = "idle"
    /\ UNCHANGED <<files, merged_from, removals>>
    /\ LET pre == download_prelude(files, config, net)
       IN  IF pre.raised # ""
           THEN RunEndsEarly(pre.raised)
           ELSE RunBegin("download", pre.prior_metadata,
                         pre.existing_files_by_url, pre.to_download)

\* one pass of the loop of download_podcasts
DownloadItem(net) ==
    /\ pc = "download"
    /\ pos <= Len(todo)
    /\ RunStep(download_item(files, existing, todo[pos], STG_1_DIR, net))

\* lines 336-337: merge with the prior metadata and persist
DownloadFinish ==
    /\ pc = "download"
    /\ RunFinish(write_metadata(files, merge_metadata(prior_metadata, results), STG_1_META))

\* transcribe_podcasts up to the loop (lines 111-134)
TranscribeStart ==
    /\ pc = "idle"
    /\ UNCHANGED <<files, merged_from, removals>>
    /\ LET prior == get_prior_metadata(files, STG_2_META).prior_metadata
       IN  IF get_prior_metadata_raises(files, STG_2_META) # ""
           THEN RunEndsEarly(get_prior_metadata_raises(files, STG_2_META))
           ELSE IF ~path_exists(files, STG_1_META)
           THEN RunEndsEarly("FileNotFoundError")
           ELSE IF loaded_list(files, STG_1_META) = <<>>
           THEN RunEndsEarly("ok")
           ELSE RunBegin("transcribe", prior, transcript_index(files, prior),
                         loaded_list(files, STG_1_META))

\* one pass of the loop of transcribe_podcasts
TranscribeItem(whisper) ==
    /\ pc = "transcribe"
    /\ pos <= Len(todo)
    /\ RunStep(transcribe_item(files, existing, todo[pos], STG_2_DIR, whisper))

\* lines 238-241
TranscribeFinish ==
    /\ pc = "transcribe"
    /\ RunFinish(save_json(files, merge_metadata(prior_metadata, results), STG_2_META))

\* diarize_podcasts up to the loop (lines 86-109)
DiarizeStart ==
    /\ pc = "idle"
    /\ UNCHANGED <<files, merged_from, removals>>
    /\ LET prior == get_prior_metadata(files, STG_3_META).prior_metadata
       IN  IF get_prior_metadata_raises(files, STG_3_META) # ""
           THEN RunEndsEarly(get_prior_metadata_raises(files, STG_3_META))
           ELSE IF ~path_exists(files, STG_2_META)
           THEN RunEndsEarly("FileNotFoundError")
           ELSE IF loaded_list(files, STG_2_META) = <<>>
           THEN RunEndsEarly("ok")
           ELSE RunBegin("diarize", prior, diarized_index(files, prior),
                         loaded_list(files, STG_2_META))

\* one pass of the loop of diarize_podcasts
DiarizeItem(diarization) ==
    /\ pc = "diarize"
    /\ pos <= Len(todo)
    /\ RunStep(diarize_item(files, existing, todo[pos], STG_3_DIR, diarization))

\* lines 160-161
DiarizeFinish ==
    /\ pc = "diarize"
    /\ RunFinish(save_json(files, merge_metadata(prior_metadata, results), STG_3_META))

\* A user or another program removes an artifact between runs.
ArtifactDirs == {STG_1_DIR, STG_2_DIR, STG_3_DIR}

EnvRemove(p) ==
    /\ pc = "idle"
    /\ p \in DOMAIN files
    /\ p.dir \in ArtifactDirs
    /\ removals < MaxRemovals
    /\ removals' = removals + 1
    /\ files' = remove_file(files, p)
    /\ outcome' = "none"
    /\ UNCHANGED <<pc, prior_metadata, existing, todo, pos, results, calls,
                   merged_from, runs>>

StageIdle ==
    /\ pc = "idle"
    /\ prior_metadata = <<>>
    /\ existing = <<>>
    /\ todo = <<>>
    /\ pos = 0
    /\ results = <<>>
    /\ calls = <<>>
    /\ outcome = "none"
    /\ merged_from = [stage |-> "none", prior |-> <<>>, new |-> <<>>]
    /\ runs = 0
    /\ removals = 0

TwiceUnused ==
    /\ t_ended = 0
    /\ t_asr = 0
    /\ t_asr_raised = FALSE
    /\ t_first = <<>>

CallUnused ==
    /\ call_fn = "none"
    /\ call_arg = <<>>
    /\ call_ret = <<>>
    /\ call_pc = "unused"

MergeUnused ==
    /\ mA = <<>> /\ mB = <<>> /\ mC = <<>>
    /\ mAB = <<>> /\ mBC = <<>>
    /\ mLeft = <<>> /\ mRight = <<>> /\ mAAB = <<>> /\ mAA = <<>>
    /\ mpc = "unused"

\* the clean state: no artifact, no metadata file
Init ==
    /\ files = <<>>
    /\ StageIdle
    /\ MergeUnused
    /\ TwiceUnused
    /\ CallUnused

RunDownloadStart ==
    \E config \in DownloadConfigs, net \in {"ok", "refused"} :
        DownloadStart(config, net) /\ UNCHANGED <<mergeVars, twiceVars, callVars>>

RunDownloadItem == \E net \in NetOutcomes : DownloadItem(net) /\ UNCHANGED <<mergeVars, twiceVars, callVars>>

RunDownloadFinish == DownloadFinish /\ UNCHANGED <<mergeVars, twiceVars, callVars>>

RunTranscribeStart == TranscribeStart /\ UNCHANGED <<mergeVars, twiceVars, callVars>>

RunTranscribeItem ==
    \E whisper \in WhisperOutcomes : TranscribeItem(whisper) /\ UNCHANGED <<mergeVars, twiceVars, callVars>>

RunTranscribeFinish == TranscribeFinish /\ UNCHANGED <<mergeVars, twiceVars, callVars>>

RunDiarizeStart == DiarizeStart /\ UNCHANGED <<mergeVars, twiceVars, callVars>>

RunDiarizeItem ==
    \E diarization \in DiarizeOutcomes : DiarizeItem(diarization) /\ UNCHANGED <<mergeVars, twiceVars, callVars>>

RunDiarizeFinish == DiarizeFinish /\ UNCHANGED <<mergeVars, twiceVars, callVars>>

RemoveArtifact == \E p \in DOMAIN files : EnvRemove(p) /\ UNCHANGED <<mergeVars, twiceVars, callVars>>

Next ==
    \/ RunDownloadStart \/ RunDownloadItem \/ RunDownloadFinish
    \/ RunTranscribeStart \/ RunTranscribeItem \/ RunTranscribeFinish
    \/ RunDiarizeStart \/ RunDiarizeItem \/ RunDiarizeFinish
    \/ RemoveArtifact

Spec == Init /\ [][Next]_vars

-----------------------------------------------------------------------------
(* SpecTwice: downloads, then the transcribe stage run up to TwiceRuns     *)
(* times in succession with nothing in between, as a test with a call      *)
(* counter on transcribe_audio observes it.                                *)

TwiceRuns == 2

\* what the test records of a step of the transcribe stage
TwiceObserve(invocations, model_raised) ==
    /\ t_asr' = t_asr + invocations
    /\ t_asr_raised' = (t_asr_raised \/ model_raised)
    /\ IF pc' = "idle"
       THEN /\ t_ended' = t_ended + 1
            /\ t_first' = IF t_ended = 0
                          THEN <<loaded_list(files', STG_2_META)>>
                          ELSE t_first
       ELSE UNCHANGED <<t_ended, t_first>>

TwiceDownloadStart == t_ended = 0 /\ RunDownloadStart

TwiceTranscribeStart ==
    /\ t_ended < TwiceRuns
    /\ TranscribeStart
    /\ TwiceObserve(0, FALSE)
    /\ UNCHANGED <<mergeVars, callVars>>

TwiceTranscribeItem ==
    \E whisper \in WhisperOutcomes :
        /\ TranscribeItem(whisper)
        /\ LET step == transcribe_item(files, existing, todo[pos], STG_2_DIR, whisper)
           IN  TwiceObserve(Len(step.called),
                            step.called # <<>> /\ whisper.raised # "")
        /\ UNCHANGED <<mergeVars, callVars>>

TwiceTranscribeFinish ==
    /\ TranscribeFinish
    /\ TwiceObserve(0, FALSE)
    /\ UNCHANGED <<mergeVars, callVars>>

NextTwice ==
    \/ TwiceDownloadStart \/ RunDownloadItem \/ RunDownloadFinish
    \/ TwiceTranscribeStart \/ TwiceTranscribeItem \/ TwiceTranscribeFinish

SpecTwice == Init /\ [][NextTwice]_vars

-----------------------------------------------------------------------------
(* SpecMerge: inputs drawn from a pool of records, merge_metadata applied *)

MaxTotal == 3

\* Records whose identity fields collide in every way the key priority can
\* tell apart: same audio_url with different guid, same guid with different
\* audio_url, same guid without audio_url, a title equal to another record's
\* audio_url, a record with no identity at all, a record lacking the fields.
MergePool ==
    { [audio_url |-> "k1", guid |-> "k3", title |-> "t1"],
      [audio_url |-> "k1", guid |-> "",   title |-> "t2"],
      [audio_url |-> "k2", guid |-> "k3", title |-> "t1"],
      [audio_url |-> "",   guid |-> "k3", title |-> "t1"],
      [audio_url |-> NoneVal, guid |-> "k3", title |-> "t2"],
      [audio_url |-> "",   guid |-> "",   title |-> "k1"],
      [audio_url |-> "",   guid |-> NoneVal, title |-> ""],
      [description |-> "no identity fields"] }

InitMerge ==
    /\ mA \in SeqsUpTo(MergePool, MaxTotal)
    /\ mB \in SeqsUpTo(MergePool, MaxTotal - Len(mA))
    /\ mC \in SeqsUpTo(MergePool, MaxTotal - Len(mA) - Len(mB))
    /\ mAB = <<>> /\ mBC = <<>>
    /\ mLeft = <<>> /\ mRight = <<>> /\ mAAB = <<>> /\ mAA = <<>>
    /\ mpc = "inputs"
    /\ files = <<>>
    /\ StageIdle
    /\ TwiceUnused
    /\ CallUnused

MergeInner ==
    /\ mpc = "inputs"
    /\ mAB' = merge_metadata(mA, mB)
    /\ mBC' = merge_metadata(mB, mC)
    /\ mAA' = merge_metadata(mA, mA)
    /\ mpc' = "inner"
    /\ UNCHANGED <<mA, mB, mC, mLeft, mRight, mAAB, stageVars, twiceVars, callVars>>

MergeOuter ==
    /\ mpc = "inner"
    /\ mLeft' = merge_metadata(mAB, mC)
    /\ mRight' = merge_metadata(mA, mBC)
    /\ mAAB' = merge_metadata(mA, mAB)
    /\ mpc' = "outer"
    /\ UNCHANGED <<mA, mB, mC, mAB, mBC, mAA, stageVars, twiceVars, callVars>>

NextMerge == MergeInner \/ MergeOuter

SpecMerge == InitMerge /\ [][NextMerge]_vars

-----------------------------------------------------------------------------
(* SpecCalls: one call of one function of the pipeline, its arguments      *)
(* drawn from pools.                                                       *)

\* the numeric hints of a feed item and the size of its downloaded file
FillDurations == {NoNum, Num(0), Num(-8), Num(8)}
FillBitrates == {NoNum, Num(0), Num(-2), Num(2)}
FillFeedSizes == {NoNum, Num(0), Num(-4000), Num(4000)}
FillFileSizes == {0, 4000}
FillSources == {NoneVal, "itunes:duration"}

ReconcileArgs ==
    [episode : [duration_seconds : FillDurations,
                duration_source : FillSources,
                feed_size_bytes : FillFeedSizes,
                bitrate_kbps_feed : FillBitrates],
     file_size_bytes : FillFileSizes]

\* feed items for the selection: two of the same day, one without a date
MaxItems == 3

SelectPool ==
    { [title |-> "a", published |-> DateTime(1, 0)],
      [title |-> "b", published |-> DateTime(2, 0)],
      [title |-> "c", published |-> DateTime(2, 5)],
      [title |-> "d", published |-> DateTime(3, 0)],
      [title |-> "e", published |-> <<>>] }

\* the feeds: lists of distinct items
SelectFeeds ==
    {items \in SeqsUpTo(SelectPool, MaxItems) :
        \A i, j \in DOMAIN items : i # j => items[i] # items[j]}

\* the configurations that pass the validation of lines 240-250
SelectConfigs ==
    {config \in [start_date : {NoDate, IsoDate(2)},
                 end_date : {NoDate, IsoDate(2)},
                 limit : {NoNum, Num(0), Num(1), Num(2)},
                 sort_order : {"asc", "desc", "DESC", NoneVal}] :
        validate_config(config) = ""}

SelectArgs == [items : SelectFeeds, config : SelectConfigs]

\* every combination of options, the rejected ones included
PreludeConfigs ==
    [start_date : {NoDate, IsoDate(1), IsoDate(2), BadDate},
     end_date : {NoDate, IsoDate(1), IsoDate(2), BadDate},
     limit : {NoNum, Num(1)},
     sort_order : {"asc", "desc", "DESC", NoneVal, "newest"}]

PreludeArgs == [config : PreludeConfigs, net : {"ok", "refused"}]

\* interval bounds, in seconds
Endpoints == {0, 5, 6, 10, 15, 20, 30}

OverlapArgs == [a_start : Endpoints, a_end : Endpoints,
                b_start : Endpoints, b_end : Endpoints]

\* transcript segments as transcribe_audio lists them
Segment(id, start, end) ==
    [id |-> id, start |-> start, end |-> end, text |-> "What has keys",
     avg_logprob |-> -1, no_speech_prob |-> 1, compression_ratio |-> 1]

SegmentPool == {Segment(1, 0, 10), Segment(2, 0, 5), Segment(3, 10, 20)}

MaxSegments == 2

\* transcripts as transcribe_podcasts writes them (lines 186-218)
TranscriptPool ==
    {transcript_data(transcribe_audio(MkPath(STG_1_DIR, Stem("a", 0, ""), ".mp3"),
         [language |-> "en", language_probability |-> Num(90),
          duration |-> 20, duration_after_vad |-> 20, segments |-> segs]))
       : segs \in SeqsUpTo(SegmentPool, MaxSegments)}

\* speaker turns as diarize_audio lists them
TurnPool == {Turn(0, 6, "A"), Turn(6, 10, "B"), Turn(20, 30, "C"),
             Turn(3, 6, "B"), Turn(0, 5, "B")}

MaxTurns == 3

AssignArgs == [transcript : TranscriptPool,
               speaker_segments : SeqsUpTo(TurnPool, MaxTurns)]

\* the transcripts the scoring reads: as transcribed, or with speakers
ScoringTranscripts ==
    TranscriptPool \cup
    {assign_speakers_to_segments(t, <<Turn(0, 6, "A"), Turn(6, 10, "B")>>) :
        t \in TranscriptPool}

ScoringArgs == [transcript : ScoringTranscripts, embed : EmbedOutcomes]

\* the names config.py binds
ConfigNames == {"RSS_FEED", "DATA_DIR", "META_DIR", "STG_1_DIR", "STG_1_META",
                "STG_2_DIR", "STG_2_META"}

\* the names etl.py imports from config
EtlImports == {"RSS_FEED", "STG_1_DIR", "STG_1_META", "STG_2_DIR", "STG_2_META",
               "STG_3_DIR", "STG_3_META", "STG_4_DIR", "STG_4_META"}

\* Running etl.py: the import of lines 4-14, then etl(rss_url).  logger is
\* the logging.Logger that get_logger returns, an object without __call__,
\* so the first statement of etl, logger(...), raises TypeError.  stages
\* lists the stage functions that were called, each with the metadata file
\* it is told to read and the one it is told to write.
etl(rss_url) ==
    LET logger_is_callable == FALSE
        called == << [fn |-> "download_podcasts", reads |-> rss_url,
                      writes |-> "STG_1_META"],
                     [fn |-> "transcribe_podcasts", reads |-> "STG_1_META",
                      writes |-> "STG_2_META"],
                     [fn |-> "diarize_podcasts", reads |-> "STG_2_META",
                      writes |-> "STG_3_META"] >>
    IN  IF ~(EtlImports \subseteq ConfigNames)
        THEN [raised |-> "ImportError", stages |-> <<>>]
        ELSE IF ~logger_is_callable
        THEN [raised |-> "TypeError", stages |-> <<>>]
        ELSE [raised |-> "", stages |-> called]

EtlArgs == [rss_url : {"RSS_FEED"}]

\* the loop of extract_riddles (lines 17-30) from item i on, and the final
\* write of lines 32-33.  There is no test for an existing score file, no
\* handler around the reads, and the list written is the input list with
\* score_path added.
RECURSIVE extract_loop(_, _, _, _, _)
extract_loop(fs, transcript_meta, i, embed, called) ==
    IF i > Len(transcript_meta)
    THEN [raised |-> "", called |-> called,
          fs |-> save_json(fs, transcript_meta, STG_3_META)]
    ELSE LET meta == transcript_meta[i]
             transcript_path == GetPath(meta, "transcript_path")
             scored_transcript_path ==
                 MkPath(STG_3_DIR, transcript_path.stem, transcript_path.ext)
             called1 == called \o <<[fn |-> "riddle_scoring", arg |-> transcript_path]>>
         IN  IF "transcript_path" \notin DOMAIN meta
             THEN [raised |-> "KeyError", called |-> called, fs |-> fs]
             ELSE IF ~path_exists(fs, transcript_path)
             THEN [raised |-> "FileNotFoundError", called |-> called, fs |-> fs]
             ELSE IF fs[transcript_path].kind = "unparsable"
             THEN [raised |-> "JSONDecodeError", called |-> called, fs |-> fs]
             ELSE IF ~loads_as_dict(fs, transcript_path)
             THEN [raised |-> "TypeError", called |-> called1, fs |-> fs]
             ELSE IF riddle_scoring(fs[transcript_path].data, embed).raised # ""
             THEN [raised |-> riddle_scoring(fs[transcript_path].data, embed).raised,
                   called |-> called1, fs |-> fs]
             ELSE extract_loop(
                      save_json_object(fs,
                          riddle_scoring(fs[transcript_path].data, embed).out,
                          scored_transcript_path),
                      [transcript_meta EXCEPT
                          ![i] = RecUpdate(meta, [score_path |-> scored_transcript_path])],
                      i + 1, embed, called1)

\* Running extract_riddles.py: the import of lines 6-10, which asks config
\* for STG_3_DIR and STG_3_META, then extract_riddles() (lines 12-33)
extract_riddles(fs, embed) ==
    IF ~({"STG_2_META", "STG_3_DIR", "STG_3_META"} \subseteq ConfigNames)
    THEN [raised |-> "ImportError", called |-> <<>>, fs |-> fs]
    ELSE IF ~path_exists(fs, STG_2_META)
    THEN [raised |-> "FileNotFoundError", called |-> <<>>, fs |-> fs]
    ELSE IF fs[STG_2_META].kind = "unparsable"
    THEN [raised |-> "JSONDecodeError", called |-> <<>>, fs |-> fs]
    ELSE IF fs[STG_2_META].kind # "json_list"
    THEN [raised |-> "TypeError", called |-> <<>>, fs |-> fs]
    ELSE extract_loop(fs, fs[STG_2_META].data, 1, embed, <<>>)

\* file systems for the score stage: the transcribe stage's metadata with
\* one record, its transcript there or not, the scored transcript and the
\* stage's own earlier metadata there or not
ExtractArgs ==
    LET audio == MkPath(STG_1_DIR, Stem("a", 0, ""), ".mp3")
        transcript_path == MkPath(STG_2_DIR, Stem("a", 0, ""), ".json")
        score_path == MkPath(STG_3_DIR, Stem("a", 0, ""), ".json")
        transcript == transcript_data(transcribe_audio(audio, WhisperSpeech))
        meta == [title |-> "a", audio_url |-> "u1", file_path |-> audio,
                 transcript_path |-> transcript_path]
        earlier == [title |-> "b", audio_url |-> "u2"]
        put(fss, path, content) == fss \cup {write_file(fs, path, content) : fs \in fss}
        fs0 == {save_json(<<>>, <<meta>>, STG_2_META)}
        fs1 == put(fs0, transcript_path, [kind |-> "json_dict", data |-> transcript])
        fs2 == put(fs1, score_path,
                   [kind |-> "json_dict",
                    data |-> riddle_scoring(transcript,
                                            [raised |-> "", similarity |-> 20]).out])
    IN  [fs : put(fs2, STG_3_META, [kind |-> "json_list", data |-> <<earlier>>]),
         embed : EmbedOutcomes]

\* file systems for get_prior_metadata: the metadata file absent or with
\* one of the contents a file can have (of a JSON object, which
\* get_prior_metadata does not look into, only the kind), the recorded
\* audio file there or not
PriorFileSystems ==
    LET audio == MkPath(STG_1_DIR, Stem("a", 0, ""), ".mp3")
        entry == [audio_url |-> "u1", title |-> "a", file_path |-> audio]
        contents == << [kind |-> "unparsable"],
                       [kind |-> "json_dict"],
                       [kind |-> "json_list_of_scalars"],
                       [kind |-> "json_list", data |-> <<>>],
                       [kind |-> "json_list", data |-> <<entry>>] >>
        without == {<<>>} \cup {write_file(<<>>, STG_1_META, contents[i]) :
                                   i \in DOMAIN contents}
    IN  without \cup
        {write_file(fs, audio, [kind |-> "audio", src |-> "u1", size |-> 1,
                                complete |-> TRUE]) : fs \in without}

\* Arguments for the output path of one item: prior records that name
\* outputs under an older naming scheme or the present one, for the item's
\* upstream artifact or another one, over file systems in which any of the
\* recorded outputs may be there.  The item is the episode with audio
\* a.mp3 and transcript a.json.
ResolveArgs ==
    LET audio(b) == MkPath(STG_1_DIR, Stem(b, 0, ""), ".mp3")
        transcript(b) == MkPath(STG_2_DIR, Stem(b, 0, ""), ".json")
        diarized(b) == MkPath(STG_3_DIR, Stem(b, 0, "_diarized"), ".json")
        pool == {[title |-> "a", file_path |-> audio("a"),
                  transcript_path |-> transcript("a_v1"),
                  diarized_transcript_path |-> diarized("a_v1")],
                 [title |-> "a", file_path |-> audio("a"),
                  transcript_path |-> transcript("a"),
                  diarized_transcript_path |-> diarized("a_v1")],
                 [title |-> "b", file_path |-> audio("b"),
                  transcript_path |-> transcript("b"),
                  diarized_transcript_path |-> diarized("b")],
                 [title |-> "a", file_path |-> audio("a")]}
        outputs == {transcript("a_v1"), transcript("a"), transcript("b"),
                    diarized("a_v1")}
    IN  [stage : {"transcribe", "diarize"},
         fs : {[q \in there |-> [kind |-> "json_dict"]] : there \in SUBSET outputs},
         prior : SeqsUpTo(pool, MaxItems),
         podcast : {[title |-> "a", file_path |-> audio("a"),
                     transcript_path |-> transcript("a")]}]

\* Arguments for one pass of the loop of the transcribe or the diarize
\* stage on the episode with audio a.mp3: the audio there or not; the
\* transcript absent, as the transcribe stage writes it, or a file that
\* does not load as a JSON object; the diarized transcript absent, as the
\* diarize stage writes it for some diarization, or a file that does not
\* load; and the outcome of the external call, should it be made.  made
\* is the diarization an existing diarized transcript was made from.
\* For the download stage: an item of the feed, an empty download
\* directory and the outcome of the transfer.
ItemArgs ==
    LET audio == MkPath(STG_1_DIR, Stem("a", 0, ""), ".mp3")
        transcript_path == MkPath(STG_2_DIR, Stem("a", 0, ""), ".json")
        diarized_path == MkPath(STG_3_DIR, Stem("a", 0, "_diarized"), ".json")
        transcript == transcript_data(transcribe_audio(audio, WhisperSpeech))
        unloadable == {[kind |-> "unparsable"], [kind |-> "json_list_of_scalars"]}
        put(fs, path, contents) ==
            {fs} \cup {write_file(fs, path, c) : c \in contents}
        with_audio == put(<<>>, audio, {[kind |-> "audio", src |-> "u1", size |-> 1,
                                         complete |-> TRUE]})
        with_transcript ==
            UNION {put(fs, transcript_path,
                       unloadable \cup {[kind |-> "json_dict", data |-> transcript]})
                     : fs \in with_audio}
        made == {d.out : d \in {o \in DiarizeOutcomes : o.raised = ""}}
        with_diarized(turns) ==
            UNION {put(fs, diarized_path,
                       unloadable \cup
                       {[kind |-> "json_dict",
                         data |-> assign_speakers_to_segments(transcript, turns)]})
                     : fs \in with_transcript}
    IN  UNION {[stage : {"transcribe", "diarize"},
                fs : with_diarized(turns),
                made : {turns},
                podcast : {[title |-> "a", audio_url |-> "u1", guid |-> "g1",
                            file_path |-> audio, file_size_bytes |-> 1,
                            transcript_path |-> transcript_path,
                            language |-> "fr", speaker_labels |-> {"Z"}]},
                whisper : WhisperOutcomes,
                diarization : DiarizeOutcomes] : turns \in made}
        \cup [stage : {"download"}, fs : {<<>>},
              podcast : {Feed[i] : i \in DOMAIN Feed}, net : NetOutcomes]

CallArgs(fn) ==
    CASE fn = "reconcile" -> ReconcileArgs
      [] fn = "extract_riddles" -> ExtractArgs
      [] fn = "stage_item" -> ItemArgs
      [] fn = "resolve_output_path" -> ResolveArgs
      [] fn = "get_prior_metadata" -> PriorFileSystems
      [] fn = "etl" -> EtlArgs
      [] fn = "riddle_scoring" -> ScoringArgs
      [] fn = "assign_speakers_to_segments" -> AssignArgs
      [] fn = "interval_overlap" -> OverlapArgs
      [] fn = "select_episodes" -> SelectArgs
      [] fn = "download_prelude" -> PreludeArgs

CallFns == {"reconcile", "select_episodes", "download_prelude", "interval_overlap",
            "assign_speakers_to_segments", "riddle_scoring", "etl",
            "get_prior_metadata", "resolve_output_path", "stage_item",
            "extract_riddles"}

InitCalls ==
    /\ call_fn \in CallFns
    /\ call_arg \in CallArgs(call_fn)
    /\ call_ret = <<>>
    /\ call_pc = "called"
    /\ files = <<>>
    /\ StageIdle
    /\ MergeUnused
    /\ TwiceUnused

Return(fn, value) ==
    /\ call_pc = "called"
    /\ call_fn = fn
    /\ call_ret' = value
    /\ call_pc' = "returned"
    /\ UNCHANGED <<call_fn, call_arg, mergeVars, stageVars, twiceVars>>

\* lines 306-333 on one episode
CallReconcile ==
    LET raised == reconcile_raises(call_arg.episode, call_arg.file_size_bytes)
    IN  Return("reconcile",
               IF raised # ""
               THEN [raised |-> raised]
               ELSE [raised |-> "",
                     out |-> reconcile(call_arg.episode, call_arg.file_size_bytes)])

\* lines 274-281 on one feed
CallSelect ==
    Return("select_episodes",
           [raised |-> "", out |-> select_episodes(call_arg.items, call_arg.config)])

\* lines 240-284 on an empty data directory
CallPrelude ==
    Return("download_prelude", download_prelude(files, call_arg.config, call_arg.net))

CallOverlap ==
    Return("interval_overlap",
           interval_overlap(call_arg.a_start, call_arg.a_end,
                            call_arg.b_start, call_arg.b_end))

CallAssign ==
    Return("assign_speakers_to_segments",
           assign_speakers_to_segments(call_arg.transcript, call_arg.speaker_segments))

CallScoring ==
    Return("riddle_scoring", riddle_scoring(call_arg.transcript, call_arg.embed))

CallEtl ==
    Return("etl", etl(call_arg.rss_url))

\* get_prior_metadata(STG_1_META) on the file system of the argument
CallPrior ==
    LET raised == get_prior_metadata_raises(call_arg, STG_1_META)
    IN  Return("get_prior_metadata",
               IF raised # "" THEN [raised |-> raised]
               ELSE [raised |-> "", out |-> get_prior_metadata(call_arg, STG_1_META)])

\* the reuse index a stage builds from its prior metadata and the output
\* path it resolves for the item
CallResolve ==
    LET a == call_arg
        index == IF a.stage = "transcribe"
                 THEN transcript_index(a.fs, a.prior)
                 ELSE diarized_index(a.fs, a.prior)
    IN  Return("resolve_output_path",
               [index |-> index,
                path |-> IF a.stage = "transcribe"
                         THEN resolve_transcript_path(index, a.podcast.file_path, STG_2_DIR)
                         ELSE resolve_diarized_path(index, a.podcast.transcript_path,
                                                    STG_3_DIR)])

\* one pass of the loop of a stage, with no output recorded in the prior
\* metadata, and what the stage persists if the run ends after this item
CallItem ==
    LET a == call_arg
        step == CASE a.stage = "download" ->
                       download_item(a.fs, <<>>, a.podcast, STG_1_DIR, a.net)
                  [] a.stage = "transcribe" ->
                       transcribe_item(a.fs, <<>>, a.podcast, STG_2_DIR, a.whisper)
                  [] a.stage = "diarize" ->
                       diarize_item(a.fs, <<>>, a.podcast, STG_3_DIR, a.diarization)
        combined == merge_metadata(<<>>, step.emitted)
        persisted ==
            CASE step.raised # "" -> <<>>
              [] a.stage = "download" ->
                   write_metadata(step.fs, combined, STG_1_META)[STG_1_META].data
              [] a.stage = "transcribe" ->
                   save_json(step.fs, combined, STG_2_META)[STG_2_META].data
              [] a.stage = "diarize" ->
                   save_json(step.fs, combined, STG_3_META)[STG_3_META].data
    IN  Return("stage_item",
               [fs |-> step.fs, raised |-> step.raised, called |-> step.called,
                emitted |-> step.emitted, persisted |-> persisted])

CallExtract ==
    Return("extract_riddles", extract_riddles(call_arg.fs, call_arg.embed))

NextCalls ==
    \/ CallReconcile
    \/ CallExtract
    \/ CallItem
    \/ CallResolve
    \/ CallPrior
    \/ CallEtl
    \/ CallScoring
    \/ CallAssign
    \/ CallOverlap
    \/ CallSelect
    \/ CallPrelude

SpecCalls == InitCalls /\ [][NextCalls]_vars

Returned(fn) == call_pc = "returned" /\ call_fn = fn

-----------------------------------------------------------------------------
(* Vocabulary of the properties: the identity key as the specification     *)
(* words it, independent of entry_key.                                     *)

IdFields == <<"audio_url", "guid", "title">>

FieldEmpty(r, f) == f \notin DOMAIN r \/ r[f] = "" \/ r[f] = NoneVal

FieldOf(r, f) == IF f \in DOMAIN r THEN r[f] ELSE NoneVal

\* no identity field at all
AllEmpty(r) == \A i \in DOMAIN IdFields : FieldEmpty(r, IdFields[i])

\* the first non-empty value among audio_url, guid, title
IdentityKey(r) ==
    IF ~FieldEmpty(r, "audio_url") THEN r.audio_url
    ELSE IF ~FieldEmpty(r, "guid") THEN r.guid
    ELSE IF ~FieldEmpty(r, "title") THEN r.title
    ELSE ""

KeysOf(L) == {IdentityKey(L[i]) : i \in {j \in DOMAIN L : ~AllEmpty(L[j])}}

PositionsOf(L, k) == {i \in DOMAIN L : ~AllEmpty(L[i]) /\ IdentityKey(L[i]) = k}

Min(S) == CHOOSE x \in S : \A y \in S : x <= y
Max(S) == CHOOSE x \in S : \A y \in S : x >= y

FirstPos(L, k) == Min(PositionsOf(L, k))
LastPos(L, k) == Max(PositionsOf(L, k))

\* the key -> record content of a list: the (key, record) pairs it holds
PairSet(L) == {<<IdentityKey(L[i]), L[i]>> : i \in DOMAIN L}

\* last-write-wins content of a list: for each key its last record
LastPairs(L) == {<<k, L[LastPos(L, k)]>> : k \in KeysOf(L)}

\* every record keyed, no key twice
DistinctKeyed(L) ==
    /\ \A i \in DOMAIN L : ~AllEmpty(L[i])
    /\ \A i, j \in DOMAIN L : i # j => IdentityKey(L[i]) # IdentityKey(L[j])

-----------------------------------------------------------------------------
(* Properties of merge_metadata, checked under SpecMerge *)

\* C1: merge_metadata(A, merge_metadata(A, B)) has the same identity-key ->
\* record content as merge_metadata(A, B).
C1_MergeAbsorbsPrior ==
    mpc = "outer" => PairSet(mAAB) = PairSet(mAB)

\* C1 witness: A and B carry a common key with different records, and the
\* merge of A with merge(A, B) has been computed.
C1_Witness ==
    /\ mpc = "outer"
    /\ \E i \in DOMAIN mA, j \in DOMAIN mB :
          /\ ~AllEmpty(mA[i])
          /\ IdentityKey(mA[i]) = IdentityKey(mB[j])
          /\ mA[i] # mB[j]
    /\ Len(mAB) >= 2

\* C2 as stated: for any list X, merge_metadata(X, X) equals X.
C2_MergeSelfIsIdentity ==
    mpc # "inputs" => mAA = mA

\* C2 amended: for any list X in which every record has an identity key and
\* no two records share one (such as any output of merge_metadata),
\* merge_metadata(X, X) equals X, records and order.
C2_MergeSelfIsIdentityOnDistinctKeyed ==
    (mpc # "inputs" /\ DistinctKeyed(mA)) => mAA = mA

\* C2 witness: a list of two or more keyed, pairwise differently keyed
\* records has been merged with itself.
C2_Witness ==
    mpc = "inner" /\ Len(mA) >= 2 /\ DistinctKeyed(mA)

\* C3: merge(merge(A, B), C) and merge(A, merge(B, C)) have the same
\* identity-key -> record content: for each key, the last record carrying
\* that key in A then B then C.
C3_MergeAssociativeInContent ==
    mpc = "outer" =>
        /\ PairSet(mLeft) = PairSet(mRight)
        /\ PairSet(mLeft) = LastPairs(mA \o mB \o mC)

\* C3 witness: one key is carried by a record of A, of B and of C, the three
\* records differ, and both groupings have been computed.
C3_Witness ==
    /\ mpc = "outer"
    /\ \E i \in DOMAIN mA, j \in DOMAIN mB, l \in DOMAIN mC :
          /\ ~AllEmpty(mA[i])
          /\ IdentityKey(mA[i]) = IdentityKey(mB[j])
          /\ IdentityKey(mB[j]) = IdentityKey(mC[l])
          /\ mA[i] # mB[j] /\ mB[j] # mC[l] /\ mA[i] # mC[l]

\* C4: records are keyed by the first non-empty value among audio_url, guid,
\* title: the output holds one record per such value; two records that both
\* have an audio_url collapse exactly when the audio_urls are equal, whatever
\* their guids; two records with empty audio_url and the same guid collapse
\* into one.
C4_IdentityPriority ==
    mpc # "inputs" =>
        /\ Len(mAB) = Cardinality(KeysOf(mA \o mB))
        /\ (Len(mA) = 1 /\ Len(mB) = 1) =>
              LET r == mA[1]
                  s == mB[1]
              IN  /\ (~FieldEmpty(r, "audio_url") /\ ~FieldEmpty(s, "audio_url")) =>
                        IF FieldOf(r, "audio_url") = FieldOf(s, "audio_url")
                        THEN mAB = <<s>>
                        ELSE mAB = <<r, s>>
                  /\ ( /\ FieldEmpty(r, "audio_url") /\ FieldEmpty(s, "audio_url")
                       /\ ~FieldEmpty(r, "guid")
                       /\ FieldOf(r, "guid") = FieldOf(s, "guid") ) =>
                        mAB = <<s>>

\* C4 witness: a record with audio_url and guid merged with a record of the
\* same guid and another audio_url (both kept).
C4_Witness ==
    /\ mpc = "inner" /\ Len(mA) = 1 /\ Len(mB) = 1
    /\ ~FieldEmpty(mA[1], "audio_url") /\ ~FieldEmpty(mB[1], "audio_url")
    /\ ~FieldEmpty(mA[1], "guid")
    /\ FieldOf(mA[1], "guid") = FieldOf(mB[1], "guid")
    /\ FieldOf(mA[1], "audio_url") # FieldOf(mB[1], "audio_url")
    /\ Len(mAB) = 2

\* C6: the output of merge_metadata holds no record whose audio_url, guid and
\* title are all empty or absent, and its set of identity keys is exactly the
\* set of identity keys occurring in prior or new_entries.
C6_MergeDropsUnkeyedOnly ==
    mpc # "inputs" =>
        /\ \A i \in DOMAIN mAB : ~AllEmpty(mAB[i])
        /\ KeysOf(mAB) = KeysOf(mA) \cup KeysOf(mB)

\* C6 witness: an input holds a record without identity next to keyed ones.
C6_Witness ==
    /\ mpc = "inner"
    /\ \E i \in DOMAIN mA : AllEmpty(mA[i])
    /\ \E j \in DOMAIN mB : AllEmpty(mB[j])
    /\ Len(mAB) >= 1

\* C7: in merge_metadata(prior, new) the record of each key is the last one
\* carrying it in prior followed by new, and keys come out in the order of
\* their first occurrence in prior followed by new; a key of prior absent
\* from new keeps its record, and a key present in both keeps the place it
\* had in prior and takes the record of new.
C7_LastWriteWinsFirstSeenOrder ==
    mpc # "inputs" =>
        LET In == mA \o mB
        IN  /\ Len(mAB) = Cardinality(KeysOf(In))
            /\ \A p \in DOMAIN mAB :
                  /\ ~AllEmpty(mAB[p])
                  /\ mAB[p] = In[LastPos(In, IdentityKey(mAB[p]))]
            /\ \A p, q \in DOMAIN mAB :
                  p < q => FirstPos(In, IdentityKey(mAB[p]))
                             < FirstPos(In, IdentityKey(mAB[q]))
            /\ \A p \in DOMAIN mAB :
                  LET k == IdentityKey(mAB[p])
                  IN  k \in KeysOf(mA) =>
                        /\ p = Cardinality({k2 \in KeysOf(mA) :
                                              FirstPos(mA, k2) <= FirstPos(mA, k)})
                        /\ k \notin KeysOf(mB) => mAB[p] = mA[LastPos(mA, k)]
                        /\ k \in KeysOf(mB) => mAB[p] = mB[LastPos(mB, k)]

\* C7 witness: prior holds two keys, new rewrites the first of them with a
\* different record, and the merge has been computed.
C7_Witness ==
    /\ mpc = "inner" /\ Len(mA) = 2 /\ Len(mB) = 1
    /\ DistinctKeyed(mA)
    /\ ~AllEmpty(mB[1])
    /\ IdentityKey(mB[1]) = IdentityKey(mA[1])
    /\ mB[1] # mA[1]
    /\ mAB = <<mB[1], mA[2]>>

-----------------------------------------------------------------------------
(* Properties of the stage runs, checked under Spec *)

MetaFiles == {STG_1_META, STG_2_META, STG_3_META}

MetaOf(stage) ==
    CASE stage = "download" -> STG_1_META
      [] stage = "transcribe" -> STG_2_META
      [] OTHER -> STG_3_META

\* C5: whatever runs of the download, transcribe and diarize stages have
\* completed, each stage's persisted metadata file holds at most one record
\* per identity key (and no record without a key).
C5_OneRecordPerKeyPersisted ==
    \A m \in MetaFiles : DistinctKeyed(loaded_list(files, m))

\* C5 witness: a run has just completed whose emitted records and prior
\* metadata had a key in common, and the file it persisted holds two or
\* more records.
C5_Witness ==
    /\ pc = "idle" /\ outcome = "ok"
    /\ merged_from.stage # "none"
    /\ KeysOf(merged_from.prior) \cap KeysOf(merged_from.new) # {}
    /\ Len(loaded_list(files, MetaOf(merged_from.stage))) >= 2

\* C8: in every step of every run, each identity key of a stage's metadata
\* file is still in the file afterwards, and the record of a key the run
\* did not emit is the record it was.  (The file changes only in the step
\* that completes a run, where results holds what the run emitted.)
C8_NoHistoryLost ==
    [][ \A m \in MetaFiles :
          LET before == loaded_list(files, m)
              after == loaded_list(files', m)
          IN  \A i \in DOMAIN before :
                 ~AllEmpty(before[i]) =>
                    \E j \in DOMAIN after :
                       /\ IdentityKey(after[j]) = IdentityKey(before[i])
                       /\ IdentityKey(before[i]) \notin KeysOf(results)
                             => after[j] = before[i] ]_vars

\* C8 witness: a run has just completed that did not emit a key of its
\* prior metadata, and the file still holds that key's prior record.
C8_Witness ==
    /\ pc = "idle" /\ outcome = "ok"
    /\ merged_from.stage # "none"
    /\ merged_from.new # <<>>
    /\ \E i \in DOMAIN merged_from.prior :
          /\ IdentityKey(merged_from.prior[i]) \notin KeysOf(merged_from.new)
          /\ merged_from.prior[i] \in Range(loaded_list(files, MetaOf(merged_from.stage)))

\* whether the loop is at an item that passes the stage's upstream check
\* and whose resolved output artifact exists
C9_OutputExists ==
    /\ pos <= Len(todo)
    /\ CASE pc = "download" ->
              LET episode == todo[pos]
              IN  \/ /\ episode.audio_url \in DOMAIN existing
                     /\ path_exists(files, existing[episode.audio_url])
                  \/ TruthyPath(glob_first(files, STG_1_DIR,
                                           sanitize_filename(episode.title),
                                           file_extension_from_url(episode.audio_url)))
         [] pc = "transcribe" ->
              /\ path_exists(files, todo[pos].file_path)
              /\ path_exists(files, resolve_transcript_path(existing, todo[pos].file_path,
                                                            STG_2_DIR))
         [] pc = "diarize" ->
              /\ path_exists(files, todo[pos].file_path)
              /\ path_exists(files, todo[pos].transcript_path)
              /\ path_exists(files, resolve_diarized_path(existing, todo[pos].transcript_path,
                                                          STG_3_DIR))
         [] OTHER -> FALSE

\* C9: when the download, transcribe or diarize loop reaches an item whose
\* resolved output artifact exists on disk, its step makes no call of
\* download_audio / transcribe_audio / diarize_audio, the run goes on, and
\* one record, with the item's identity key, is added to the emitted ones.
C9_ResumptionSkipsExternalCall ==
    [][ C9_OutputExists =>
          /\ pc' = pc
          /\ calls' = calls
          /\ Len(results') = Len(results) + 1
          /\ IdentityKey(results'[Len(results')]) = IdentityKey(todo[pos]) ]_vars

\* C9 witness: a diarize run has passed its first item without a call of
\* diarize_audio and has emitted a record that names an existing artifact.
C9_Witness ==
    /\ pc = "diarize"
    /\ pos = 2
    /\ calls = <<>>
    /\ Len(results) = 1
    /\ path_exists(files, results[1].diarized_transcript_path)

-----------------------------------------------------------------------------
(* Property of two transcribe runs in succession, checked under SpecTwice *)

\* C10: once the transcribe stage has run twice in succession on download
\* metadata of one record whose audio file is present and that had no
\* transcript, and the ASR model never failed, transcribe_audio was invoked
\* exactly once, exactly one transcript artifact exists, and the metadata
\* file holds one entry, the same after the second run as after the first.
C10_TwiceRunsOneInvocation ==
    (/\ t_ended = TwiceRuns
     /\ ~t_asr_raised
     /\ Len(loaded_list(files, STG_1_META)) = 1
     /\ path_exists(files, loaded_list(files, STG_1_META)[1].file_path))
    => /\ t_asr = 1
       /\ Cardinality({p \in DOMAIN files : p.dir = STG_2_DIR}) = 1
       /\ Len(t_first[1]) = 1
       /\ loaded_list(files, STG_2_META) = t_first[1]

\* whether the transcribe or diarize loop is at an item one of whose
\* required upstream artifacts does not exist
C11_UpstreamMissing ==
    /\ pos <= Len(todo)
    /\ CASE pc = "transcribe" -> ~path_exists(files, todo[pos].file_path)
         [] pc = "diarize" -> \/ ~path_exists(files, todo[pos].transcript_path)
                              \/ ~path_exists(files, todo[pos].file_path)
         [] OTHER -> FALSE

\* the keys of the items of the finishing run that emitted no record
C11_SkippedKeys == KeysOf(todo) \ KeysOf(results)

C11_Finishing == pc \in {"transcribe", "diarize"} /\ pos > Len(todo) /\ pc' = "idle"

\* C11 as stated: when a transcribe or diarize run completes, no item it
\* skipped appears in the stage's output metadata.
C11_SkippedNotInOutput ==
    [][ C11_Finishing =>
          \A k \in C11_SkippedKeys :
             k \notin KeysOf(loaded_list(files', MetaOf(pc))) ]_vars

\* C11 amended: an item whose upstream artifact is missing is passed over
\* without a call, a write, a record or an abort, and the loop goes on to
\* the next item; when the run completes, a skipped item is in the output
\* metadata only if the prior metadata held its key, with the prior record.
C11_SkippedNotEmitted ==
    [][ /\ C11_UpstreamMissing =>
             /\ pc' = pc /\ pos' = pos + 1
             /\ results' = results /\ calls' = calls /\ files' = files
        /\ C11_Finishing =>
             \A k \in C11_SkippedKeys :
                LET out == loaded_list(files', MetaOf(pc))
                IN  /\ k \in KeysOf(out) <=> k \in KeysOf(prior_metadata)
                    /\ \A i \in DOMAIN out :
                          IdentityKey(out[i]) = k => out[i] \in Range(prior_metadata) ]_vars

\* C11 witness: a transcribe run over two records has completed with one
\* record emitted, the audio file of the other being absent.
C11_Witness ==
    /\ pc = "idle" /\ outcome = "ok"
    /\ merged_from.stage = "transcribe"
    /\ Len(merged_from.new) = 1
    /\ Len(loaded_list(files, STG_1_META)) = 2
    /\ \E i \in 1..2 : ~path_exists(files, loaded_list(files, STG_1_META)[i].file_path)

\* C12: no run treats a partially written artifact as a completed item: a
\* record the download loop has emitted, and a record of the download
\* metadata file, never names an audio file whose transfer did not finish.
C12_NoPartialArtifactCompleted ==
    LET whole(r) == path_exists(files, r.file_path) => files[r.file_path].complete
    IN  /\ pc = "download" => \A i \in DOMAIN results : whole(results[i])
        /\ \A i \in DOMAIN loaded_list(files, STG_1_META) :
              whole(loaded_list(files, STG_1_META)[i])

-----------------------------------------------------------------------------
(* Properties of single calls, checked under SpecCalls *)

\* C13: a record with positive duration and size and no feed bitrate gets
\* bitrate_kbps and bitrate_source filled and keeps duration_seconds and
\* duration_source; a record with a positive bitrate and no duration gets
\* duration_seconds and duration_source filled and keeps the bitrate; for no
\* record are both bitrate and duration derived.
C13_FillInOneDirection ==
    Returned("reconcile") /\ call_ret.raised = "" =>
       LET e == call_arg.episode
           size == size_for_calc(e, call_arg.file_size_bytes)
           out == call_ret.out
           bitrate_filled == out.bitrate_source = "calculated_from_size_and_duration"
           duration_filled == out.duration_source = "estimated_from_bitrate_and_size"
       IN  /\ (/\ ~IsNum(e.bitrate_kbps_feed)
               /\ IsNum(e.duration_seconds) /\ Val(e.duration_seconds) > 0
               /\ IsNum(size) /\ Val(size) > 0)
              => /\ bitrate_filled /\ IsNum(out.bitrate_kbps)
                 /\ Val(out.bitrate_kbps) * Val(e.duration_seconds) * 1000 = Val(size) * 8
                 /\ out.duration_seconds = e.duration_seconds
                 /\ out.duration_source = e.duration_source
           /\ (/\ IsNum(e.bitrate_kbps_feed) /\ Val(e.bitrate_kbps_feed) > 0
               /\ ~IsNum(e.duration_seconds))
              => /\ duration_filled /\ IsNum(out.duration_seconds)
                 /\ Val(out.duration_seconds) * Val(e.bitrate_kbps_feed) * 1000
                       = call_arg.file_size_bytes * 8
                 /\ out.bitrate_kbps = e.bitrate_kbps_feed
                 /\ out.bitrate_source = "feed"
           /\ ~(bitrate_filled /\ duration_filled)
           /\ ~(out.bitrate_kbps # e.bitrate_kbps_feed
                /\ out.duration_seconds # e.duration_seconds)

\* C13 witness: the fill-in has derived the bitrate of a record that came
\* with a duration and its source tag.
C13_Witness ==
    /\ Returned("reconcile") /\ call_ret.raised = ""
    /\ call_ret.out.bitrate_source = "calculated_from_size_and_duration"
    /\ call_arg.episode.duration_source = "itunes:duration"
    /\ call_arg.file_size_bytes > 0

\* a value that is missing, zero or negative
C14_Degenerate(x) == ~IsNum(x) \/ Val(x) <= 0

C15_InRange(item, config) ==
    /\ item.published # <<>>
    /\ config.start_date = NoDate \/ item.published[1].day >= config.start_date[1].day
    /\ config.end_date = NoDate \/ item.published[1].day <= config.end_date[1].day

\* published of x strictly before published of y
C15_Older(x, y) ==
    \/ x.published[1].day < y.published[1].day
    \/ x.published[1].day = y.published[1].day /\ x.published[1].sec < y.published[1].sec

\* C15: the selection holds only in-range items of the feed, as many as
\* the limit allows, sorted by published in the configured direction, and
\* no in-range item left out is newer ('desc') or older ('asc') than a
\* selected one.
C15_SelectFilterSortLimit ==
    Returned("select_episodes") =>
       LET items == call_arg.items
           config == call_arg.config
           out == call_ret.out
           desc == config.sort_order \in {"desc", "DESC", NoneVal}
           eligible == {x \in Range(items) : C15_InRange(x, config)}
           left_out == eligible \ Range(out)
           N == IF IsNum(config.limit) /\ Val(config.limit) > 0
                THEN Val(config.limit) ELSE Cardinality(eligible)
       IN  /\ Range(out) \subseteq eligible
           /\ \A i, j \in DOMAIN out : i # j => out[i] # out[j]
           /\ Len(out) = IF N < Cardinality(eligible) THEN N ELSE Cardinality(eligible)
           /\ \A i, j \in DOMAIN out :
                 i < j => IF desc THEN ~C15_Older(out[i], out[j])
                          ELSE ~C15_Older(out[j], out[i])
           /\ \A x \in left_out, y \in Range(out) :
                 IF desc THEN ~C15_Older(y, x) ELSE ~C15_Older(x, y)

\* C15 witness: a selection of two has been cut out of three in-range
\* items that did not come in sorted order.
C15_Witness ==
    /\ Returned("select_episodes")
    /\ Len(call_ret.out) = 2
    /\ Len(call_arg.items) = 3
    /\ \A i \in 1..3 : C15_InRange(call_arg.items[i], call_arg.config)
    /\ call_ret.out[1] = call_arg.items[3]

\* the configuration errors: no filter at all, an unparsable date, a range
\* that ends before it starts, a sort order that is neither asc nor desc
C16_ConfigError(config) ==
    \/ config.start_date = NoDate /\ config.end_date = NoDate /\ config.limit = NoNum
    \/ config.start_date = BadDate
    \/ config.end_date = BadDate
    \/ /\ config.start_date \notin {NoDate, BadDate}
       /\ config.end_date \notin {NoDate, BadDate}
       /\ config.end_date[1].day < config.start_date[1].day
    \/ config.sort_order \notin {"asc", "desc", "DESC", NoneVal}

\* C16: under a configuration error download_podcasts ends with SystemExit
\* having done no I/O: no read of the prior metadata, no fetch of the feed
\* (and so no download and no write, which come later still).
C16_ConfigErrorBeforeIO ==
    (Returned("download_prelude") /\ C16_ConfigError(call_arg.config))
    => call_ret.raised = "SystemExit" /\ call_ret.io = <<>>

\* C16 witness: the stage has ended on an unparsable start date although
\* the feed could have been fetched.
C16_Witness ==
    /\ Returned("download_prelude")
    /\ call_arg.config.start_date = BadDate
    /\ call_arg.config.limit = Num(1)
    /\ call_arg.net = "ok"
    /\ call_ret.raised = "SystemExit"

\* C17: interval_overlap returns the length of the intersection when that
\* is positive and 0 otherwise: it is never negative, it is 0 when one
\* interval ends where or before the other starts, overlap(0,10,5,15) = 5,
\* overlap(0,5,5,10) = 0 and overlap(0,10,20,30) = 0.
C17_OverlapClamped ==
    Returned("interval_overlap") =>
       LET a == call_arg
           lo == IF a.a_start >= a.b_start THEN a.a_start ELSE a.b_start
           hi == IF a.a_end <= a.b_end THEN a.a_end ELSE a.b_end
       IN  /\ call_ret >= 0
           /\ call_ret = IF hi - lo > 0 THEN hi - lo ELSE 0
           /\ (a.a_end <= a.b_start \/ a.b_end <= a.a_start) => call_ret = 0
           /\ a = [a_start |-> 0, a_end |-> 10, b_start |-> 5, b_end |-> 15] => call_ret = 5
           /\ a = [a_start |-> 0, a_end |-> 5, b_start |-> 5, b_end |-> 10] => call_ret = 0
           /\ a = [a_start |-> 0, a_end |-> 10, b_start |-> 20, b_end |-> 30] => call_ret = 0

\* C17 witness: interval_overlap has returned for two disjoint intervals
\* with a gap between them.
C17_Witness ==
    /\ Returned("interval_overlap")
    /\ call_arg = [a_start |-> 0, a_end |-> 10, b_start |-> 20, b_end |-> 30]
    /\ call_ret = 0

\* the length of the intersection of a segment and a turn
Intersection(seg, turn) ==
    LET lo == IF seg.start >= turn.start THEN seg.start ELSE turn.start
        hi == IF seg.end <= turn.end THEN seg.end ELSE turn.end
    IN  IF hi > lo THEN hi - lo ELSE 0

\* the sum of the intersections of a segment with the turns of one label
RECURSIVE SummedOverlap(_, _, _)
SummedOverlap(seg, turns, label) ==
    IF turns = <<>> THEN 0
    ELSE (IF Head(turns).speaker = label THEN Intersection(seg, Head(turns)) ELSE 0)
         + SummedOverlap(seg, Tail(turns), label)

Labels(turns) == {turns[i].speaker : i \in DOMAIN turns}

SomeOverlap(seg, turns) == \E i \in DOMAIN turns : Intersection(seg, turns[i]) > 0

\* C18: assign_speakers_to_segments gives a segment (one that some turn
\* overlaps) a label whose summed overlap with the segment is maximal among
\* the labels and sets speaker_overlap to that sum; for the segment (0,10)
\* and the turns (0,6,A), (6,10,B) the result is A with 6.
C18_MaximalSummedOverlap ==
    Returned("assign_speakers_to_segments") =>
       LET turns == call_arg.speaker_segments
           before == call_arg.transcript.segments
           after == call_ret.segments
       IN  /\ \A i \in DOMAIN before :
                SomeOverlap(before[i].v, turns) =>
                   /\ after[i].v.speaker \in Labels(turns)
                   /\ after[i].v.speaker_overlap
                        = SummedOverlap(before[i].v, turns, after[i].v.speaker)
                   /\ \A l \in Labels(turns) :
                        SummedOverlap(before[i].v, turns, l) <= after[i].v.speaker_overlap
           /\ turns = <<Turn(0, 6, "A"), Turn(6, 10, "B")>> =>
                \A i \in DOMAIN before :
                    (before[i].v.start = 0 /\ before[i].v.end = 10) =>
                       /\ after[i].v.speaker = "A"
                       /\ after[i].v.speaker_overlap = 6

\* C18 witness: a label wins by the sum of two turns, neither of which is
\* the longest single overlap.
C18_Witness ==
    /\ Returned("assign_speakers_to_segments")
    /\ call_arg.speaker_segments = <<Turn(0, 6, "A"), Turn(6, 10, "B"), Turn(3, 6, "B")>>
    /\ \E i \in DOMAIN call_ret.segments :
          /\ call_arg.transcript.segments[i].v.start = 0
          /\ call_arg.transcript.segments[i].v.end = 10
          /\ call_ret.segments[i].v.speaker = "B"
          /\ call_ret.segments[i].v.speaker_overlap = 7

\* C19: after assign_speakers_to_segments every segment carries speaker and
\* speaker_overlap; a segment no turn overlaps by a positive amount has
\* speaker UNKNOWN and speaker_overlap 0, every other segment has a positive
\* speaker_overlap and a speaker that is one of the turns' labels.
C19_EverySegmentLabelled ==
    Returned("assign_speakers_to_segments") =>
       LET turns == call_arg.speaker_segments
           before == call_arg.transcript.segments
           after == call_ret.segments
       IN  /\ DOMAIN after = DOMAIN before
           /\ \A i \in DOMAIN after :
                /\ {"speaker", "speaker_overlap"} \subseteq DOMAIN after[i].v
                /\ IF SomeOverlap(before[i].v, turns)
                   THEN /\ after[i].v.speaker_overlap > 0
                        /\ after[i].v.speaker \in Labels(turns)
                   ELSE /\ after[i].v.speaker = "UNKNOWN"
                        /\ after[i].v.speaker_overlap = 0

\* C19 witness: of two segments one is overlapped and labelled, the other
\* only touches turns and is UNKNOWN.
C19_Witness ==
    /\ Returned("assign_speakers_to_segments")
    /\ call_arg.speaker_segments = <<Turn(6, 10, "B"), Turn(20, 30, "C")>>
    /\ Len(call_ret.segments) = 2
    /\ call_ret.segments[1].v.speaker = "B"
    /\ call_ret.segments[1].v.speaker_overlap = 4
    /\ call_arg.transcript.segments[2].v.start = 10
    /\ call_ret.segments[2].v.speaker = "UNKNOWN"
    /\ call_ret.segments[2].v.speaker_overlap = 0

\* the segment keys of a transcript, in order
SegmentKeys(transcript) ==
    [i \in DOMAIN transcript.segments |-> transcript.segments[i].k]

\* a record without the fields in gone
Without(r, gone) == [f \in DOMAIN r \ gone |-> r[f]]

\* C20: the diarize alignment and the scoring output the segment keys of
\* their input in the same order; the alignment leaves every field of a
\* segment as it was and adds speaker and speaker_overlap; the scoring holds
\* each input segment unchanged under transcription.
C20_SegmentKeysStable ==
    /\ Returned("assign_speakers_to_segments") =>
          /\ SegmentKeys(call_ret) = SegmentKeys(call_arg.transcript)
          /\ \A i \in DOMAIN call_ret.segments :
                LET before == call_arg.transcript.segments[i].v
                    after == call_ret.segments[i].v
                IN  /\ DOMAIN after = DOMAIN before \cup {"speaker", "speaker_overlap"}
                    /\ Without(after, {"speaker", "speaker_overlap"}) = before
    /\ (Returned("riddle_scoring") /\ call_ret.raised = "") =>
          /\ SegmentKeys(call_ret.out) = SegmentKeys(call_arg.transcript)
          /\ \A i \in DOMAIN call_ret.out.segments :
                call_ret.out.segments[i].v.transcription
                   = call_arg.transcript.segments[i].v

\* C20 witness: the scoring has returned for a transcript of two segments
\* with speakers, the second of which has an id other than its position.
C20_Witness ==
    /\ Returned("riddle_scoring")
    /\ call_ret.raised = ""
    /\ Len(call_ret.out.segments) = 2
    /\ call_ret.out.segments[2].k = <<"s", 2>>
    /\ call_ret.out.segments[2].v.transcription.id = 1
    /\ "speaker" \in DOMAIN call_ret.out.segments[2].v.transcription

\* C21: a run of the pipeline driver calls the four stages in the order
\* download, transcribe, diarize, score, and every stage after the first
\* reads the metadata file the stage before it wrote.
C21_FourStagesInOrder ==
    Returned("etl") =>
       /\ call_ret.raised = ""
       /\ Len(call_ret.stages) = 4
       /\ [i \in 1..4 |-> call_ret.stages[i].fn]
             = <<"download_podcasts", "transcribe_podcasts",
                 "diarize_podcasts", "extract_riddles">>
       /\ \A i \in 2..4 : call_ret.stages[i].reads = call_ret.stages[i - 1].writes

\* the metadata file is absent, is not JSON, or is JSON but not a list
C22_NoPriorList(fs, path) ==
    \/ path \notin DOMAIN fs
    \/ fs[path].kind \in {"unparsable", "json_dict"}

C23_Recorded(prior, upstream_field, output_field, upstream) ==
    {prior[i][output_field] :
        i \in {j \in DOMAIN prior : /\ upstream_field \in DOMAIN prior[j]
                                    /\ output_field \in DOMAIN prior[j]
                                    /\ prior[j][upstream_field] = upstream}}

C23_Canonical(a) ==
    IF a.stage = "transcribe"
    THEN [dir |-> STG_2_DIR, stem |-> a.podcast.file_path.stem, ext |-> ".json"]
    ELSE [dir |-> STG_3_DIR,
          stem |-> [base |-> a.podcast.transcript_path.stem.base,
                    n |-> a.podcast.transcript_path.stem.n, tag |-> "_diarized"],
          ext |-> ".json"]

\* C23: the output path a stage resolves for an item is a path its prior
\* metadata records for the item's upstream artifact whose file exists, if
\* there is one, and otherwise the canonical path, upstream stem plus
\* suffix; no entry of a reuse index (the download stage's included) is a
\* path without a file.
C23_ReuseIffRecordedFileExists ==
    /\ Returned("resolve_output_path") =>
          LET a == call_arg
              recorded == IF a.stage = "transcribe"
                          THEN C23_Recorded(a.prior, "file_path", "transcript_path",
                                            a.podcast.file_path)
                          ELSE C23_Recorded(a.prior, "transcript_path",
                                            "diarized_transcript_path",
                                            a.podcast.transcript_path)
              there == recorded \cap DOMAIN a.fs
          IN  /\ there # {} => call_ret.path \in there
              /\ there = {} => call_ret.path = C23_Canonical(a)
              /\ \A k \in DOMAIN call_ret.index : call_ret.index[k] \in DOMAIN a.fs
    /\ (Returned("get_prior_metadata") /\ call_ret.raised = "") =>
          \A u \in DOMAIN call_ret.out.existing_files_by_url :
              call_ret.out.existing_files_by_url[u] \in DOMAIN call_arg

\* C23 witness: the prior metadata records an old-scheme transcript that is
\* there and the path resolved is that one, not the canonical one.
C23_Witness ==
    /\ Returned("resolve_output_path")
    /\ call_arg.stage = "transcribe"
    /\ call_ret.path # C23_Canonical(call_arg)
    /\ call_ret.path \in DOMAIN call_arg.fs
    /\ C23_Canonical(call_arg) \notin DOMAIN call_arg.fs

\* C23 second witness: the old-scheme transcript is recorded but gone, and
\* the canonical path is resolved.
C23_WitnessGone ==
    /\ Returned("resolve_output_path")
    /\ call_arg.stage = "transcribe"
    /\ Len(call_arg.prior) = 1
    /\ "transcript_path" \in DOMAIN call_arg.prior[1]
    /\ call_arg.prior[1].file_path = call_arg.podcast.file_path
    /\ call_arg.prior[1].transcript_path \notin DOMAIN call_arg.fs
    /\ call_arg.prior[1].transcript_path # C23_Canonical(call_arg)
    /\ call_ret.path = C23_Canonical(call_arg)

\* the output path of the item of a stage_item call, and the field for it
ItemOutputField(a) ==
    IF a.stage = "transcribe" THEN "transcript_path" ELSE "diarized_transcript_path"

ItemOutputPath(a) ==
    IF a.stage = "transcribe"
    THEN [dir |-> STG_2_DIR, stem |-> a.podcast.file_path.stem, ext |-> ".json"]
    ELSE [dir |-> STG_3_DIR,
          stem |-> [base |-> a.podcast.transcript_path.stem.base,
                    n |-> a.podcast.transcript_path.stem.n, tag |-> "_diarized"],
          ext |-> ".json"]

\* the item's upstream artifacts are there, so the item is not skipped
ItemUpstreamThere(a) ==
    /\ a.stage # "download"
    /\ a.podcast.file_path \in DOMAIN a.fs
    /\ a.stage = "diarize" => a.podcast.transcript_path \in DOMAIN a.fs

\* the item's output is there and does not load as a JSON object
C24_OutputUnloadable(a) ==
    /\ ItemUpstreamThere(a)
    /\ ItemOutputPath(a) \in DOMAIN a.fs
    /\ a.fs[ItemOutputPath(a)].kind # "json_dict"

\* C24: when the existing output of an item does not load, the pass over
\* the item raises nothing, makes no external call, writes nothing, and
\* emits one record: the item's fields with the output path and, in the
\* diarize stage, no speaker labels and a count of 0; in the transcribe
\* stage no summary field is set.
C24_UnloadableOutputIsKept ==
    (Returned("stage_item") /\ C24_OutputUnloadable(call_arg)) =>
        LET a == call_arg
            set == IF a.stage = "transcribe" THEN {"transcript_path"}
                   ELSE {"diarized_transcript_path", "speaker_labels",
                         "speaker_segment_count"}
        IN  /\ call_ret.raised = ""
            /\ call_ret.called = <<>>
            /\ call_ret.fs = a.fs
            /\ Len(call_ret.emitted) = 1
            /\ LET rec == call_ret.emitted[1]
               IN  /\ DOMAIN rec = DOMAIN a.podcast \cup set
                   /\ rec[ItemOutputField(a)] = ItemOutputPath(a)
                   /\ \A f \in DOMAIN a.podcast \ set : rec[f] = a.podcast[f]
                   /\ a.stage = "diarize" =>
                         /\ rec.speaker_labels = {}
                         /\ rec.speaker_segment_count = 0

\* C24 witness: the diarize pass has met a diarized transcript that is not
\* JSON, while the diarization, had it been asked for, would have raised.
C24_Witness ==
    /\ Returned("stage_item")
    /\ call_arg.stage = "diarize"
    /\ C24_OutputUnloadable(call_arg)
    /\ call_arg.fs[ItemOutputPath(call_arg)].kind = "unparsable"
    /\ call_arg.diarization.raised # ""
    /\ Len(call_ret.emitted) = 1

\* the fields a stage sets in the record it emits
StageFields(stage) ==
    CASE stage = "download" ->
           {"file_path", "file_size_bytes", "bitrate_kbps", "bitrate_source",
            "duration_seconds", "duration_source"}
      [] stage = "transcribe" ->
           {"transcript_path", "language", "language_probability", "num_segments"}
      [] stage = "diarize" ->
           {"diarized_transcript_path", "speaker_labels", "speaker_segment_count"}

\* the fields of a record of the download stage's metadata file
DownloadSchema ==
    {"title", "published", "published_raw", "description", "guid", "audio_url",
     "mime_type", "feed_size_bytes", "file_size_bytes", "bitrate_kbps",
     "bitrate_source", "duration_seconds", "duration_source", "file_path"}

\* rec has every field of item, with item's value except in the fields of set
KeepsFields(rec, item, set) ==
    /\ DOMAIN item \subseteq DOMAIN rec
    /\ \A f \in DOMAIN item \ set : rec[f] = item[f]

\* C25 as stated: every record a stage emits and persists has every field
\* of its input item, unchanged except for the fields the stage sets.
C25_NoFieldRemoved ==
    Returned("stage_item") =>
        /\ \A i \in DOMAIN call_ret.emitted :
              KeepsFields(call_ret.emitted[i], call_arg.podcast, StageFields(call_arg.stage))
        /\ \A i \in DOMAIN call_ret.persisted :
              KeepsFields(call_ret.persisted[i], call_arg.podcast, StageFields(call_arg.stage))

\* C25 as amended: the records the transcribe and the diarize stage emit
\* and persist have every field of the input item, unchanged except for the
\* fields the stage sets; the record the download stage emits has every
\* field of the feed item, and the record it persists has the fields of
\* write_metadata and no other, so it lacks duration_raw and
\* bitrate_kbps_feed, and has the feed item's values in the fields the
\* stage does not set, published being rendered as text.
C25_FieldsCarriedOrProjected ==
    Returned("stage_item") =>
        LET a == call_arg
            set == StageFields(a.stage)
        IN  /\ \A i \in DOMAIN call_ret.emitted :
                  KeepsFields(call_ret.emitted[i], a.podcast, set)
            /\ a.stage # "download" =>
                  \A i \in DOMAIN call_ret.persisted :
                      /\ KeepsFields(call_ret.persisted[i], a.podcast, set)
                      /\ call_ret.persisted[i] = call_ret.emitted[i]
            /\ a.stage = "download" =>
                  \A i \in DOMAIN call_ret.persisted :
                      /\ DOMAIN call_ret.persisted[i] = DownloadSchema
                      /\ DOMAIN a.podcast \ DownloadSchema
                            = {"duration_raw", "bitrate_kbps_feed"}
                      /\ \A f \in (DOMAIN a.podcast \cap DownloadSchema)
                                     \ (set \cup {"published"}) :
                            call_ret.persisted[i][f] = a.podcast[f]

\* C25 witness: the transcribe pass has transcribed an item that came with
\* a language and speaker labels of its own; the record has the new
\* language and the old labels.
C25_Witness ==
    /\ Returned("stage_item")
    /\ call_arg.stage = "transcribe"
    /\ call_ret.called # <<>>
    /\ Len(call_ret.persisted) = 1
    /\ call_arg.podcast.language = "fr"
    /\ call_ret.persisted[1].language = "en"
    /\ call_ret.persisted[1].speaker_labels = {"Z"}

\* C25 second witness: the download stage has persisted the record of a
\* downloaded feed item.
C25_WitnessDownload ==
    /\ Returned("stage_item")
    /\ call_arg.stage = "download"
    /\ Len(call_ret.persisted) = 1
    /\ call_ret.persisted[1].file_path \in DOMAIN call_ret.fs

\* the position of the first turn of a label that overlaps the segment by
\* a positive amount (the label has one)
FirstOverlapping(seg, turns, label) ==
    CHOOSE i \in DOMAIN turns :
        /\ turns[i].speaker = label
        /\ Intersection(seg, turns[i]) > 0
        /\ \A j \in 1..(i - 1) :
              ~(turns[j].speaker = label /\ Intersection(seg, turns[j]) > 0)

\* the labels with the greatest summed overlap, which is positive
TiedLabels(seg, turns) ==
    {l \in Labels(turns) :
        /\ SummedOverlap(seg, turns, l) > 0
        /\ \A m \in Labels(turns) :
              SummedOverlap(seg, turns, m) <= SummedOverlap(seg, turns, l)}

\* C26: among the labels that tie for the greatest summed overlap with a
\* segment, assign_speakers_to_segments picks the one whose first turn
\* overlapping the segment comes earliest in the diarization list.
C26_TieGoesToFirstSeen ==
    Returned("assign_speakers_to_segments") =>
       LET turns == call_arg.speaker_segments
           before == call_arg.transcript.segments
           after == call_ret.segments
       IN  \A i \in DOMAIN before :
              LET tied == TiedLabels(before[i].v, turns)
              IN  tied # {} =>
                    /\ after[i].v.speaker \in tied
                    /\ \A l \in tied :
                          FirstOverlapping(before[i].v, turns, after[i].v.speaker)
                             <= FirstOverlapping(before[i].v, turns, l)

\* C26 witness: two labels tie on a segment; the label that comes first in
\* the list does so with a turn that does not overlap the segment, and the
\* other label, the first to overlap, is picked.
C26_Witness ==
    /\ Returned("assign_speakers_to_segments")
    /\ call_arg.speaker_segments = <<Turn(6, 10, "B"), Turn(0, 6, "A"), Turn(0, 5, "B")>>
    /\ \E i \in DOMAIN call_ret.segments :
          /\ call_arg.transcript.segments[i].v.start = 0
          /\ call_arg.transcript.segments[i].v.end = 5
          /\ Cardinality(TiedLabels(call_arg.transcript.segments[i].v,
                                    call_arg.speaker_segments)) = 2
          /\ call_ret.segments[i].v.speaker = "A"

\* C27: a run of the score stage does not score again an item whose scored
\* transcript is there, does not abort on an item whose transcript is
\* missing (the scoring itself not failing), and, when it ends well,
\* persists the merge of its own prior metadata with the records it
\* emitted, so that the prior records are still there.
C27_ScoreStageIsAStageRunner ==
    Returned("extract_riddles") =>
        LET fs == call_arg.fs
            items == fs[STG_2_META].data
            scored(meta) == [dir |-> STG_3_DIR, stem |-> meta.transcript_path.stem,
                             ext |-> meta.transcript_path.ext]
            prior == IF STG_3_META \in DOMAIN fs THEN fs[STG_3_META].data ELSE <<>>
        IN  /\ \A i \in DOMAIN items :
                  /\ scored(items[i]) \in DOMAIN fs =>
                        \A c \in DOMAIN call_ret.called :
                            call_ret.called[c].arg # items[i].transcript_path
                  /\ (items[i].transcript_path \notin DOMAIN fs
                         /\ call_arg.embed.raised = "") =>
                        call_ret.raised = ""
            /\ call_ret.raised = "" =>
                  \A p \in DOMAIN prior :
                      \E r \in DOMAIN call_ret.fs[STG_3_META].data :
                          call_ret.fs[STG_3_META].data[r].audio_url = prior[p].audio_url

\* C28: when the diarize stage meets the diarized transcript an earlier run
\* of it made, with the transcript and the audio as they were, the record
\* it emits is the record that earlier run emitted.
C28_ResumedSummaryIsTheFreshOne ==
    LET a == call_arg
    IN  (/\ Returned("stage_item")
         /\ a.stage = "diarize"
         /\ ItemUpstreamThere(a)
         /\ a.fs[a.podcast.transcript_path].kind = "json_dict"
         /\ ItemOutputPath(a) \in DOMAIN a.fs
         /\ a.fs[ItemOutputPath(a)].kind = "json_dict") =>
           LET before == [q \in DOMAIN a.fs \ {ItemOutputPath(a)} |-> a.fs[q]]
               first_run == diarize_item(before, <<>>, a.podcast, STG_3_DIR,
                                         [raised |-> "", out |-> a.made])
           IN  /\ first_run.fs = a.fs
               /\ call_ret.emitted = first_run.emitted

\* the field of a metadata file's records that names the stage's artifact
ArtifactField(m) ==
    CASE m = STG_1_META -> "file_path"
      [] m = STG_2_META -> "transcript_path"
      [] OTHER -> "diarized_transcript_path"

\* no two records of L with different identity keys name the same artifact
OneEpisodePerArtifact(L, field) ==
    \A i, j \in DOMAIN L :
        (/\ IdentityKey(L[i]) # IdentityKey(L[j])
         /\ field \in DOMAIN L[i] /\ field \in DOMAIN L[j]
         /\ L[i][field] # NonePath) =>
            L[i][field] # L[j][field]

\* C29: in every persisted metadata file, records with distinct identity
\* keys have distinct output artifact paths.
C29_OneEpisodePerArtifact ==
    \A m \in MetaFiles : OneEpisodePerArtifact(loaded_list(files, m), ArtifactField(m))

\* the metadata files are the same, in presence and in content
SameMetadata(fs1, fs2) ==
    \A m \in MetaFiles :
        /\ (m \in DOMAIN fs1) = (m \in DOMAIN fs2)
        /\ m \in DOMAIN fs1 => fs1[m] = fs2[m]

\* C30: a step of a run of the download, transcribe or diarize stage
\* changes a metadata file only if it is the step that ends the run well,
\* and then only the stage's own file; in particular a step on which the
\* run aborts leaves every metadata file as it was, and no step of a run
\* takes a file off the disk.
C30_MetadataWrittenOnlyAtFinish ==
    [][ /\ ~(pc # "idle" /\ pc' = "idle" /\ outcome' = "ok") => SameMetadata(files, files')
        /\ (pc # "idle" /\ pc' = "idle" /\ outcome' = "ok") =>
              \A m \in MetaFiles \ {MetaOf(pc)} :
                  /\ (m \in DOMAIN files) = (m \in DOMAIN files')
                  /\ m \in DOMAIN files => files[m] = files'[m]
        /\ pc # "idle" => DOMAIN files \subseteq DOMAIN files'
      ]_vars

\* C30 witness: a transcribe run has aborted on a later item; the
\* transcript it wrote for an earlier item is on disk and the stage's
\* metadata file has never been written.
C30_Witness ==
    /\ pc = "idle"
    /\ outcome \notin {"none", "ok", "running"}
    /\ STG_2_META \notin DOMAIN files
    /\ \E q \in DOMAIN files : q.dir = STG_2_DIR

====
